---- MODULE Spec2Model ----
(***************************************************************************)
(* A model of DuggerLinkTools' read-only version-control state inspector:  *)
(*   - duggerlink/utils/caching.py   ttl_cache (the expiring memoizer)     *)
(*   - duggerlink/git/operations.py  GitOperations (executor + queries)    *)
(*   - duggerlink/models/git.py      GitState (the validated snapshot)     *)
(*                                                                         *)
(* Python text is modelled as a sequence of pieces.  Text that the code    *)
(* parses (the tool's stdout) is a sequence of one-character pieces, so    *)
(* that strip, splitlines, startswith and slicing act character by         *)
(* character.  Python values carry their type: [t |-> type, v |-> value].  *)
(***************************************************************************)
EXTENDS Integers, Sequences, FiniteSets, TLC

VARIABLES
    cache,        \* per decorated function: the closure's `cache` dict
    timestamps,   \* per decorated function: the closure's `timestamps` dict
    clock,        \* the reading time.time() gives now
    ttl,          \* ttl_seconds the test producer was decorated with
    call_count,   \* the test producer's nonlocal invocation counter
    stored,       \* history: per argument list of the test producer, the value
                  \* it last returned and the clock reading of that call
    world,        \* the machine the tool runs on: tool, repository, work tree
    steps,        \* how many calls, world changes and clock advances have happened
    last,         \* the most recent completed operation and what it returned
    git_state,    \* the GitState a caller holds, once it has built one
    instances,    \* per object address: the repo_path of the GitOperations there
    origin,       \* history: per method and key, the path its entry was computed in
    threads,      \* per thread: where it stands in the wrapper or in cache_clear
    history       \* history of the threads: producer invocations, overlaps, clears

vars ==
    <<cache, timestamps, clock, ttl, call_count, stored, world, steps, last, git_state,
      instances, origin, threads, history>>

\* What the machines of one inspector and one caller leave alone.
others == <<instances, origin, threads, history>>

-----------------------------------------------------------------------------
(* Bounds of the model.                                                    *)

MaxTTL == 2        \* the test producer is decorated with ttl in 1..MaxTTL
MaxClock == 3      \* the clock of the memoizer specification stops here
MaxCalls == 2      \* the test producer is invoked at most this often
MaxArg == 1        \* argument b of the test producer ranges over 0..MaxArg
MaxSteps == 3      \* inspector calls, world changes and clock advances in a behaviour
MaxInner == 1      \* world changes and clock advances while one inspector call runs
MaxFiles == 2      \* entries of an untracked_files list given to GitState
TickStep == 30     \* seconds that pass in one advance of the inspector's clock
MaxOps == 4        \* creations, destructions, assignments, queries and clears

-----------------------------------------------------------------------------
(* Python values.                                                          *)

PyStr(s) == [t |-> "str", v |-> s]
PyBool(b) == [t |-> "bool", v |-> b]
PyInt(n) == [t |-> "int", v |-> n]
PyList(l) == [t |-> "list", v |-> l]
PyNone == [t |-> "NoneType", v |-> <<>>]

Digit == <<"0", "1", "2", "3", "4", "5", "6", "7", "8", "9">>

RECURSIVE NatStr(_)
NatStr(n) == IF n < 10 THEN <<Digit[n + 1]>>
             ELSE NatStr(n \div 10) \o <<Digit[(n % 10) + 1]>>

\* repr() of a value, as str() of a tuple or list applies it to each element.
Repr(x) ==
    CASE x.t = "int" -> IF x.v < 0 THEN <<"-">> \o NatStr(0 - x.v) ELSE NatStr(x.v)
      [] x.t = "bool" -> IF x.v THEN <<"True">> ELSE <<"False">>
      [] x.t = "NoneType" -> <<"None">>
      [] x.t = "str" -> <<"'">> \o x.v \o <<"'">>
      [] x.t = "object" -> <<"<duggerlink.git.operations.GitOperations object at ", x.v, ">">>

RECURSIVE JoinRepr(_)
JoinRepr(xs) ==
    IF Len(xs) = 0 THEN <<>>
    ELSE IF Len(xs) = 1 THEN Repr(xs[1])
    ELSE Repr(xs[1]) \o <<", ">> \o JoinRepr(Tail(xs))

\* str(args) of the positional tuple: "()", "(a,)", "(a, b)".
StrTuple(args) ==
    IF Len(args) = 1 THEN <<"(">> \o Repr(args[1]) \o <<",)">>
    ELSE <<"(">> \o JoinRepr(args) \o <<")">>

\* Keyword names the modelled calls use, in Python's string order.
KwNames == <<"a", "b", "remote", "staged", "untracked_files">>
KwRank(name) == CHOOSE i \in 1..Len(KwNames) : KwNames[i] = name

\* sorted(kwargs.items()): the (name, value) pairs of the dict ordered by name.
RECURSIVE SortedItems(_)
SortedItems(kwargs) ==
    IF DOMAIN kwargs = {} THEN <<>>
    ELSE LET first == CHOOSE n \in DOMAIN kwargs :
                          \A m \in DOMAIN kwargs : KwRank(n) <= KwRank(m)
             rest == [m \in DOMAIN kwargs \ {first} |-> kwargs[m]]
         IN  <<(<<first, kwargs[first]>>)>> \o SortedItems(rest)

StrItem(item) == <<"('", item[1], "', ">> \o Repr(item[2]) \o <<")">>

RECURSIVE JoinItems(_)
JoinItems(items) ==
    IF Len(items) = 0 THEN <<>>
    ELSE IF Len(items) = 1 THEN StrItem(items[1])
    ELSE StrItem(items[1]) \o <<", ">> \o JoinItems(Tail(items))

StrItems(items) == <<"[">> \o JoinItems(items) \o <<"]">>

-----------------------------------------------------------------------------
(* Python text operations, on sequences of one-character pieces.           *)

NL == "\n"
Whitespace == {" ", NL, "\t", "\r"}

\* s[n:]
DropFirst(s, n) == IF n >= Len(s) THEN <<>> ELSE SubSeq(s, n + 1, Len(s))

RECURSIVE lstrip(_)
lstrip(s) == IF s # <<>> /\ Head(s) \in Whitespace THEN lstrip(Tail(s)) ELSE s

RECURSIVE rstrip(_)
rstrip(s) ==
    IF s # <<>> /\ s[Len(s)] \in Whitespace THEN rstrip(SubSeq(s, 1, Len(s) - 1)) ELSE s

\* str.strip()
strip(s) == rstrip(lstrip(s))

\* str.startswith(prefix)
startswith(s, prefix) ==
    Len(s) >= Len(prefix) /\ SubSeq(s, 1, Len(prefix)) = prefix

\* str.splitlines(): the lines between line breaks ("\n", "\r", "\r\n"), no
\* empty last line.
RECURSIVE SplitFrom(_, _)
SplitFrom(s, line) ==
    IF s = <<>> THEN (IF line = <<>> THEN <<>> ELSE <<line>>)
    ELSE IF Head(s) = NL THEN <<line>> \o SplitFrom(Tail(s), <<>>)
    ELSE IF Head(s) = "\r"
    THEN <<line>> \o SplitFrom(IF Len(s) >= 2 /\ s[2] = NL THEN Tail(Tail(s)) ELSE Tail(s),
                               <<>>)
    ELSE SplitFrom(Tail(s), Append(line, Head(s)))

splitlines(s) == SplitFrom(s, <<>>)

DigitValue(ch) == (CHOOSE i \in 1..10 : Digit[i] = ch) - 1
IsDigits(s) == s # <<>> /\ \A i \in 1..Len(s) : \E d \in 1..10 : Digit[d] = s[i]

RECURSIVE DigitsValue(_)
DigitsValue(s) ==
    IF s = <<>> THEN 0
    ELSE 10 * DigitsValue(SubSeq(s, 1, Len(s) - 1)) + DigitValue(s[Len(s)])

\* int(text): surrounding whitespace and one sign are accepted, then digits;
\* any other text raises ValueError.
IsIntLiteral(s) ==
    LET b == strip(s)
    IN  IF b # <<>> /\ Head(b) \in {"+", "-"} THEN IsDigits(Tail(b)) ELSE IsDigits(b)

IntValue(s) ==
    LET b == strip(s)
    IN  IF Head(b) = "-" THEN 0 - DigitsValue(Tail(b))
        ELSE IF Head(b) = "+" THEN DigitsValue(Tail(b))
        ELSE DigitsValue(b)

RECURSIVE Concat(_)
Concat(ss) == IF ss = <<>> THEN <<>> ELSE Head(ss) \o Concat(Tail(ss))

-----------------------------------------------------------------------------
(* The machine the inspector runs on: whether git can be started, and the  *)
(* repository at repo_path.  GitTool is what the git binary answers.       *)

File_new_txt == <<"n", "e", "w", ".", "t", "x", "t">>
File_a_py == <<"a", ".", "p", "y">>
Text_main == <<"m", "a", "i", "n">>
Text_HEAD == <<"H", "E", "A", "D">>
Text_hash == <<"a", "b", "c", "1", "2", "3", "d">>   \* stands for the 40 digits
Text_url == <<"g", ".", "i", "o", "/", "r">>
Text_gitdir == <<".", "g", "i", "t">>
Text_fatal == <<"f", "a", "t", "a", "l">>
Text_unknown == <<"u", "n", "k", "n", "o", "w", "n">>
Text_junk == <<" ", "?", "?", "x", " ", "y", " ", NL, "h", "i", "n", "t", NL>>

W_Clean ==
    [tool |-> TRUE, repo |-> TRUE, garbled |-> FALSE, head |-> "branch",
     branch |-> Text_main, hash |-> Text_hash, commits |-> 3,
     staged |-> <<>>, modified |-> <<>>, untracked |-> <<>>, remote |-> <<Text_url>>]
W_NoTool == [W_Clean EXCEPT !.tool = FALSE]
W_NoRepo == [W_Clean EXCEPT !.repo = FALSE]
W_Unborn == [W_Clean EXCEPT !.head = "unborn", !.commits = 0, !.remote = <<>>,
                            !.untracked = <<File_new_txt>>]
W_Dirty == [W_Clean EXCEPT !.modified = <<File_a_py>>, !.untracked = <<File_new_txt>>]
W_Staged == [W_Clean EXCEPT !.staged = <<File_a_py>>]
W_Detached == [W_Clean EXCEPT !.head = "detached"]
W_Garbled == [W_Clean EXCEPT !.garbled = TRUE]

Worlds ==
    {W_Clean, W_NoTool, W_NoRepo, W_Unborn, W_Dirty, W_Staged, W_Detached, W_Garbled}

Completed(rc, out, err) == [returncode |-> rc, stdout |-> out, stderr |-> err]

Lines(prefix, files) == Concat([i \in 1..Len(files) |-> prefix \o files[i] \o <<NL>>])

\* git status --porcelain: "XY path" per entry, untracked entries marked "??".
StatusText(w, withUntracked) ==
    Lines(<<"M", " ", " ">>, w.staged) \o Lines(<<" ", "M", " ">>, w.modified)
    \o (IF withUntracked THEN Lines(<<"?", "?", " ">>, w.untracked) ELSE <<>>)

GitTool(w, args) ==
    IF w.garbled THEN Completed(0, Text_junk, <<>>)
    ELSE IF ~w.repo THEN
        Completed(IF args[1] = "diff" THEN 129 ELSE 128, <<>>, Text_fatal)
    ELSE CASE args = <<"rev-parse", "--git-dir">> ->
                Completed(0, Text_gitdir \o <<NL>>, <<>>)
           [] args = <<"status", "--porcelain">> ->
                Completed(0, StatusText(w, TRUE), <<>>)
           [] args = <<"status", "--porcelain", "--untracked-files=normal">> ->
                Completed(0, StatusText(w, TRUE), <<>>)
           [] args = <<"status", "--porcelain", "--untracked-files=no">> ->
                Completed(0, StatusText(w, FALSE), <<>>)
           [] args = <<"rev-parse", "--abbrev-ref", "HEAD">> ->
                IF w.head = "unborn" THEN Completed(128, Text_HEAD \o <<NL>>, Text_fatal)
                ELSE IF w.head = "detached" THEN Completed(0, Text_HEAD \o <<NL>>, <<>>)
                ELSE Completed(0, w.branch \o <<NL>>, <<>>)
           [] args = <<"rev-parse", "HEAD">> ->
                IF w.head = "unborn" THEN Completed(128, Text_HEAD \o <<NL>>, Text_fatal)
                ELSE Completed(0, w.hash \o <<NL>>, <<>>)
           [] args = <<"diff", "--cached", "--name-only">> ->
                Completed(0, Lines(<<>>, w.staged), <<>>)
           [] args = <<"diff", "--name-only">> ->
                Completed(0, Lines(<<>>, w.modified), <<>>)
           [] args = <<"diff", "--quiet">> ->
                Completed(IF w.modified # <<>> THEN 1 ELSE 0, <<>>, <<>>)
           [] args = <<"rev-list", "HEAD", "--count">> ->
                IF w.head = "unborn" THEN Completed(128, <<>>, Text_fatal)
                ELSE Completed(0, NatStr(w.commits) \o <<NL>>, <<>>)
           [] args = <<"remote", "get-url", "origin">> ->
                IF w.remote = <<>> THEN Completed(2, <<>>, Text_fatal)
                ELSE Completed(0, w.remote[1] \o <<NL>>, <<>>)
           [] OTHER -> Completed(2, <<>>, Text_fatal)

-----------------------------------------------------------------------------
(* GitOperations._run_command: the command executor.                       *)

\* The one element of a singleton set.  {F(x) : x \in {e}} names the value of
\* e as x, the way an assignment names a result, and evaluates e once.
Only(S) == CHOOSE x \in S : TRUE

NoError == [tool_name |-> "", command |-> <<>>, message |-> <<>>]

\* raise DuggerToolError(tool_name, command, message)
ToolError(args, message) ==
    [exc |-> "DuggerToolError", returncode |-> 0, stdout |-> <<>>, stderr |-> <<>>,
     error |-> [tool_name |-> "git", command |-> <<"git">> \o args, message |-> message]]

\* repr() of a list of str
ListRepr(l) ==
    <<"[">> \o Concat([i \in 1..Len(l) |->
                          (IF i > 1 THEN <<", ">> ELSE <<>>) \o <<"'", l[i], "'">>])
    \o <<"]">>

\* str(e) of the CalledProcessError subprocess.run raises with check=True
CalledProcessErrorStr(cmd, returncode) ==
    <<"Command '">> \o ListRepr(cmd) \o <<"' returned non-zero exit status ">>
    \o NatStr(returncode) \o <<".">>

\* f"Git command failed: {e.stderr or str(e)}"
FailedMessage(cmd, p) ==
    <<"Git command failed: ">>
    \o (IF p.stderr # <<>> THEN p.stderr ELSE CalledProcessErrorStr(cmd, p.returncode))

\* What _run_command gives when the process ran and nothing was raised.
Result(p) ==
    [exc |-> "none", returncode |-> p.returncode, stdout |-> p.stdout,
     stderr |-> p.stderr, error |-> NoError]

\* A mutant: check is passed to subprocess.run as True whatever the caller asked.
run_command_checked(w, args, check) ==
    IF ~w.tool
    THEN ToolError(args, <<"Git executable not found. Is Git installed?">>)
    ELSE Only({IF p.returncode # 0
               THEN ToolError(args, FailedMessage(<<"git">> \o args, p))
               ELSE Result(p) : p \in {GitTool(w, args)}})

run_command(w, args, check) ==
    IF ~w.tool
    THEN ToolError(args, <<"Git executable not found. Is Git installed?">>)
    ELSE Only({IF check /\ p.returncode # 0
               THEN ToolError(args, FailedMessage(<<"git">> \o args, p))
               ELSE Result(p) : p \in {GitTool(w, args)}})

-----------------------------------------------------------------------------
(* ttl_cache: the wrapper's key, its lookup and its store.                 *)
(* What a call gives back is a record: exc the exception that left it      *)
(* ("none" when it returned), ret the value, runs the executor invocations *)
(* it made, nested the memoized calls made inside it, c and ts the         *)
(* function's two stores afterwards.                                       *)

\* A mutant: binds the call to the parameters (a, b) before keying it.
CacheKeyBound(args, kwargs) ==
    LET kw(n) == IF n \in DOMAIN kwargs THEN {kwargs[n]} ELSE {}
        a == IF Len(args) >= 1 THEN {args[1]} ELSE kw("a")
        b == IF Len(args) >= 2 THEN {args[2]} ELSE kw("b")
    IN  <<a, b>>

\* key = str(args) + str(sorted(kwargs.items()))
CacheKey(args, kwargs) == StrTuple(args) \o StrItems(SortedItems(kwargs))

\* A mutant: an entry is still served when it is exactly ttl old.
CacheValidInclusive(c, ts, ttl_seconds, key, current_time) ==
    key \in DOMAIN c /\ current_time - ts[key] <= ttl_seconds

\* if key in cache and current_time - timestamps[key] < ttl_seconds
CacheValid(c, ts, ttl_seconds, key, current_time) ==
    key \in DOMAIN c /\ current_time - ts[key] < ttl_seconds

\* d[key] = value on a dict
DictSet(d, key, value) ==
    [k \in DOMAIN d \cup {key} |-> IF k = key THEN value ELSE d[k]]

EmptyDict == <<>>

Returned(value, n, c, ts) ==
    [exc |-> "none", ret |-> value, runs |-> n, nested |-> 0, c |-> c, ts |-> ts]
Raised(e, n, c, ts) ==
    [exc |-> e, ret |-> PyNone, runs |-> n, nested |-> 0, c |-> c, ts |-> ts]

\* A mutant: a miss keeps only the entry it stores, dropping the others.
StoreResultAlone(f, key, current_time) ==
    IF f.exc # "none"
    THEN [exc |-> f.exc, ret |-> PyNone, runs |-> f.runs, nested |-> f.nested,
          c |-> f.c, ts |-> f.ts, hit |-> FALSE]
    ELSE [exc |-> "none", ret |-> f.ret, runs |-> f.runs, nested |-> f.nested,
          c |-> DictSet(EmptyDict, key, f.ret),
          ts |-> DictSet(EmptyDict, key, current_time), hit |-> FALSE]

\* A mutant: the timestamp is written before the function is called.
StoreResultStampFirst(f, key, current_time) ==
    IF f.exc # "none"
    THEN [exc |-> f.exc, ret |-> PyNone, runs |-> f.runs, nested |-> f.nested,
          c |-> f.c, ts |-> DictSet(f.ts, key, current_time), hit |-> FALSE]
    ELSE [exc |-> "none", ret |-> f.ret, runs |-> f.runs, nested |-> f.nested,
          c |-> DictSet(f.c, key, f.ret), ts |-> DictSet(f.ts, key, current_time),
          hit |-> FALSE]

\* result = func(*args, **kwargs); cache[key] = result;
\* timestamps[key] = current_time; return result
StoreResult(f, key, current_time) ==
    IF f.exc # "none"
    THEN [exc |-> f.exc, ret |-> PyNone, runs |-> f.runs, nested |-> f.nested,
          c |-> f.c, ts |-> f.ts, hit |-> FALSE]
    ELSE [exc |-> "none", ret |-> f.ret, runs |-> f.runs, nested |-> f.nested,
          c |-> DictSet(f.c, key, f.ret), ts |-> DictSet(f.ts, key, current_time),
          hit |-> FALSE]

\* A mutant: the wrapper runs the function on every call and stores nothing.
wrapper_through(c, ts, ttl_seconds, key, current_time, fresh) ==
    Only({[exc |-> f.exc, ret |-> f.ret, runs |-> f.runs, nested |-> f.nested,
           c |-> c, ts |-> ts, hit |-> FALSE] : f \in {fresh}})

\* wrapper(*args, **kwargs): fresh is what func(*args, **kwargs) gives when run.
wrapper(c, ts, ttl_seconds, key, current_time, fresh) ==
    IF CacheValid(c, ts, ttl_seconds, key, current_time)
    THEN [exc |-> "none", ret |-> c[key], runs |-> 0, nested |-> 0,
          c |-> c, ts |-> ts, hit |-> TRUE]
    ELSE Only({StoreResult(f, key, current_time) : f \in {fresh}})

\* A mutant: clear() reaches copies of the two dicts, the closure's stay.
cache_clear_copies(c, ts) == [c |-> c, ts |-> ts]

\* cache_clear(): cache.clear(); timestamps.clear()
cache_clear(c, ts) == [c |-> EmptyDict, ts |-> EmptyDict]

\* cache_info(): size, ttl_seconds and the keys of the value store.
cache_info(c, ttl_seconds) ==
    [size |-> Cardinality(DOMAIN c), ttl_seconds |-> ttl_seconds, keys |-> DOMAIN c]

-----------------------------------------------------------------------------
(* GitOperations: the query methods.  X_try is the body of the method's    *)
(* try block, X_func the method with its except clause, X the decorated    *)
(* method as callers reach it.                                             *)

Self == [t |-> "object", v |-> "0x7f3a5c0d2e10"]

\* ttl_seconds of each @ttl_cache decoration.
TTLOf ==
    [get_status |-> 30, get_current_branch |-> 60, get_last_commit_hash |-> 60,
     is_dirty |-> 30, get_untracked_files |-> 30, get_changed_files |-> 60,
     get_commit_count |-> 60, get_remote_url |-> 120]

Methods == DOMAIN TTLOf

\* A mutant: only the executor's own error is caught.
ExceptToolErrorOnly(o, default) ==
    Only({IF x.exc = "DuggerToolError" THEN [x EXCEPT !.exc = "none", !.ret = default]
          ELSE x : x \in {o}})

\* except Exception: return default
Except(o, default) ==
    Only({IF x.exc # "none" THEN [x EXCEPT !.exc = "none", !.ret = default] ELSE x :
          x \in {o}})

\* The value a try block returns from the executor's result, or the
\* executor's exception passed on.
FromResult(result, value, c, ts) ==
    IF result.exc # "none" THEN Raised(result.exc, 1, c, ts)
    ELSE Returned(value, 1, c, ts)

\* result.stdout.strip() if result.stdout.strip() else ""
StatusValue(result) ==
    PyStr(IF strip(result.stdout) # <<>> THEN strip(result.stdout) ELSE <<>>)

get_status_try(w, c, ts) ==
    Only({FromResult(result, StatusValue(result), c, ts) :
          result \in {run_command(w, <<"status", "--porcelain">>, FALSE)}})

get_status_func(w, c, ts) == Except(get_status_try(w, c, ts), PyStr(<<>>))

\* result.stdout.strip()
StrippedStdout(result) == PyStr(strip(result.stdout))

get_current_branch_try(w, c, ts) ==
    Only({FromResult(result, StrippedStdout(result), c, ts) :
          result \in {run_command(w, <<"rev-parse", "--abbrev-ref", "HEAD">>, FALSE)}})

get_current_branch_func(w, c, ts) ==
    Except(get_current_branch_try(w, c, ts), PyStr(Text_unknown))

get_last_commit_hash_try(w, c, ts) ==
    Only({FromResult(result, StrippedStdout(result), c, ts) :
          result \in {run_command(w, <<"rev-parse", "HEAD">>, FALSE)}})

get_last_commit_hash_func(w, c, ts) ==
    Except(get_last_commit_hash_try(w, c, ts), PyStr(<<>>))

\* A mutant: dirtiness is read off the exit status, not the output.
HasOutputByStatus(result) == PyBool(result.returncode # 0)

\* bool(result.stdout.strip())
HasOutput(result) == PyBool(strip(result.stdout) # <<>>)

\* A mutant: the status is always taken without the untracked files.
DirtyCommandTrackedOnly(untracked_files) ==
    <<"status", "--porcelain", "--untracked-files=no">>

\* cmd = ["status", "--porcelain"], and "--untracked-files=no" appended
\* if not untracked_files
DirtyCommand(untracked_files) ==
    <<"status", "--porcelain">>
    \o (IF ~untracked_files THEN <<"--untracked-files=no">> ELSE <<>>)

is_dirty_try(w, untracked_files, c, ts) ==
    Only({FromResult(result, HasOutput(result), c, ts) :
          result \in {run_command(w, DirtyCommand(untracked_files), FALSE)}})

is_dirty_func(w, untracked_files, c, ts) ==
    Except(is_dirty_try(w, untracked_files, c, ts), PyBool(FALSE))

\* The loop over result.stdout.splitlines() that collects the "??" entries.
UntrackedOf(stdout) ==
    LET IsUntracked(line) == strip(line) # <<>> /\ startswith(strip(line), <<"?", "?">>)
        picked == SelectSeq(splitlines(stdout), IsUntracked)
    IN  [i \in 1..Len(picked) |-> strip(DropFirst(strip(picked[i]), 3))]

UntrackedValue(result) == PyList(UntrackedOf(result.stdout))

get_untracked_files_try(w, c, ts) ==
    Only({FromResult(result, UntrackedValue(result), c, ts) :
          result \in {run_command(w, <<"status", "--porcelain", "--untracked-files=normal">>,
                                  FALSE)}})

get_untracked_files_func(w, c, ts) ==
    Except(get_untracked_files_try(w, c, ts), PyList(<<>>))

\* [f.strip() for f in result.stdout.splitlines() if f.strip()]
StrippedLines(stdout) ==
    LET kept == SelectSeq(splitlines(stdout), LAMBDA f : strip(f) # <<>>)
    IN  [i \in 1..Len(kept) |-> strip(kept[i])]

StagedFalseKey == CacheKey(<<Self>>, "staged" :> PyBool(FALSE))

\* A nested memoized call seen from the method that made it, after that
\* method's own executor invocation.
AsNested(inner) ==
    [exc |-> inner.exc, ret |-> inner.ret, runs |-> 1 + inner.runs,
     nested |-> 1 + inner.nested, c |-> inner.c, ts |-> inner.ts]

\* What a git process started now finds (w) and what time.time() read now
\* gives (now).
At(w, now) == [w |-> w, now |-> now]

\* The repository changes and the clock advances that lie between the
\* environments e and f.
Cost(e, f) == (IF f.w # e.w THEN 1 ELSE 0) + ((f.now - e.now) \div TickStep)

\* The environments at most k changes after e.
Moves(e, k) ==
    {f \in {At(w, e.now + i * TickStep) : w \in Worlds, i \in 0..k} : Cost(e, f) <= k}

RECURSIVE get_changed_files_func(_, _, _, _, _, _)

\* A mutant: an empty staged list is returned as it is, without the fallback.
ChangedFromNoFallback(result, w, staged, c, ts, now) ==
    IF result.exc # "none" THEN Raised(result.exc, 1, c, ts)
    ELSE Returned(PyList(StrippedLines(result.stdout)), 1, c, ts)

\* What get_changed_files does with the result of its diff command.
ChangedFrom(result, w, staged, c, ts, now) ==
    IF result.exc # "none" THEN Raised(result.exc, 1, c, ts)
    ELSE IF strip(result.stdout) # <<>>
    THEN Returned(PyList(StrippedLines(result.stdout)), 1, c, ts)
    ELSE IF staged
    THEN \* return self.get_changed_files(staged=False)
         \* the nested call reads the clock (now) and runs git (w) itself
         Only({AsNested(inner) :
               inner \in {wrapper(c, ts, TTLOf.get_changed_files, StagedFalseKey, now,
                                  get_changed_files_func(w, FALSE, c, ts, now,
                                                         At(w, now)))}})
    ELSE Returned(PyList(<<>>), 1, c, ts)

\* `later` is the environment of the nested call, should it be made.
get_changed_files_try(w, staged, c, ts, now, later) ==
    Only({ChangedFrom(result, later.w, staged, c, ts, later.now) :
          result \in {IF staged
                      THEN run_command(w, <<"diff", "--cached", "--name-only">>, FALSE)
                      ELSE run_command(w, <<"diff", "--name-only">>, FALSE)}})

get_changed_files_func(w, staged, c, ts, now, later) ==
    Except(get_changed_files_try(w, staged, c, ts, now, later), PyList(<<>>))

\* A mutant: the count is returned as the text git printed, int() forgotten.
CountFromText(result, c, ts) ==
    IF result.exc # "none" THEN Raised(result.exc, 1, c, ts)
    ELSE Returned(PyStr(strip(result.stdout)), 1, c, ts)

\* int(result.stdout.strip() or 0)
CountFrom(result, c, ts) ==
    IF result.exc # "none" THEN Raised(result.exc, 1, c, ts)
    ELSE IF strip(result.stdout) = <<>> THEN Returned(PyInt(0), 1, c, ts)
    ELSE IF IsIntLiteral(strip(result.stdout))
    THEN Returned(PyInt(IntValue(strip(result.stdout))), 1, c, ts)
    ELSE Raised("ValueError", 1, c, ts)

get_commit_count_try(w, c, ts) ==
    Only({CountFrom(result, c, ts) :
          result \in {run_command(w, <<"rev-list", "HEAD", "--count">>, FALSE)}})

get_commit_count_func(w, c, ts) == Except(get_commit_count_try(w, c, ts), PyInt(0))

\* result.stdout.strip() if result.returncode == 0 else None
UrlValue(result) == IF result.returncode = 0 THEN PyStr(strip(result.stdout)) ELSE PyNone

get_remote_url_try(w, remote, c, ts) ==
    Only({FromResult(result, UrlValue(result), c, ts) :
          result \in {run_command(w, <<"remote", "get-url", remote>>, FALSE)}})

get_remote_url_func(w, remote, c, ts) == Except(get_remote_url_try(w, remote, c, ts), PyNone)

\* self._run_command(["rev-parse", "--git-dir"]); return True
ProbeValue(result) == PyBool(TRUE)

is_git_repository_try(w) ==
    Only({FromResult(result, ProbeValue(result), EmptyDict, EmptyDict) :
          result \in {run_command(w, <<"rev-parse", "--git-dir">>, FALSE)}})

is_git_repository(w) == Except(is_git_repository_try(w), PyBool(FALSE))

\* How Python binds a boolean parameter that follows self.
BindFlag(call, name, default) ==
    IF Len(call.args) >= 2 THEN call.args[2].v
    ELSE IF name \in DOMAIN call.kwargs THEN call.kwargs[name].v
    ELSE default

KeyOf(call) == CacheKey(call.args, call.kwargs)

get_status(w, call, c, ts, now) ==
    wrapper(c, ts, TTLOf.get_status, KeyOf(call), now, get_status_func(w, c, ts))

get_current_branch(w, call, c, ts, now) ==
    wrapper(c, ts, TTLOf.get_current_branch, KeyOf(call), now,
            get_current_branch_func(w, c, ts))

get_last_commit_hash(w, call, c, ts, now) ==
    wrapper(c, ts, TTLOf.get_last_commit_hash, KeyOf(call), now,
            get_last_commit_hash_func(w, c, ts))

is_dirty(w, call, c, ts, now) ==
    wrapper(c, ts, TTLOf.is_dirty, KeyOf(call), now,
            is_dirty_func(w, BindFlag(call, "untracked_files", TRUE), c, ts))

get_untracked_files(w, call, c, ts, now) ==
    wrapper(c, ts, TTLOf.get_untracked_files, KeyOf(call), now,
            get_untracked_files_func(w, c, ts))

get_changed_files(w, call, c, ts, now, later) ==
    wrapper(c, ts, TTLOf.get_changed_files, KeyOf(call), now,
            get_changed_files_func(w, BindFlag(call, "staged", TRUE), c, ts, now, later))

get_commit_count(w, call, c, ts, now) ==
    wrapper(c, ts, TTLOf.get_commit_count, KeyOf(call), now,
            get_commit_count_func(w, c, ts))

get_remote_url(w, call, c, ts, now) ==
    wrapper(c, ts, TTLOf.get_remote_url, KeyOf(call), now,
            get_remote_url_func(w, "origin", c, ts))

\* The calls the model makes: self alone, or self with one boolean argument.
DefaultCall == [args |-> <<Self>>, kwargs |-> EmptyDict]
FlagCalls(name) ==
    {DefaultCall,
     [args |-> <<Self, PyBool(FALSE)>>, kwargs |-> EmptyDict],
     [args |-> <<Self>>, kwargs |-> (name :> PyBool(FALSE))]}

SummaryMethods ==
    {"get_current_branch", "is_dirty", "get_last_commit_hash", "get_untracked_files",
     "get_commit_count", "get_remote_url"}

\* The order in which get_git_summary evaluates them, after the probe.
SummaryOrder ==
    <<"get_current_branch", "is_dirty", "get_last_commit_hash", "get_untracked_files",
      "get_commit_count", "get_remote_url">>

\* get_git_summary meets the environment seven times: at the probe and at
\* each of the six memoized calls, which read the clock and start their git
\* process one after another.
Points == 1 + Len(SummaryOrder)
PointOf(m) == 1 + CHOOSE i \in 1..Len(SummaryOrder) : SummaryOrder[i] = m

\* The environment stays as it is throughout the call.
Steady(w, now) == [i \in 1..Points |-> At(w, now)]

RECURSIVE Courses(_, _, _)

\* The environments of n successive points after e, at most k changes in all.
Courses(e, n, k) ==
    IF n = 0 THEN {<<>>}
    ELSE UNION {{<<f>> \o rest : rest \in Courses(f, n - 1, k - Cost(e, f))} :
                f \in Moves(e, k)}

\* The six memoized calls get_git_summary makes for a repository.
SummaryCall(m, w, cch, tss, now) ==
    CASE m = "get_current_branch" ->
            get_current_branch(w, DefaultCall, cch[m], tss[m], now)
      [] m = "is_dirty" -> is_dirty(w, DefaultCall, cch[m], tss[m], now)
      [] m = "get_last_commit_hash" ->
            get_last_commit_hash(w, DefaultCall, cch[m], tss[m], now)
      [] m = "get_untracked_files" ->
            get_untracked_files(w, DefaultCall, cch[m], tss[m], now)
      [] m = "get_commit_count" -> get_commit_count(w, DefaultCall, cch[m], tss[m], now)
      [] m = "get_remote_url" -> get_remote_url(w, DefaultCall, cch[m], tss[m], now)

\* A mutant: the not-a-repository mapping reports the branch as "unknown".
NotARepositoryUnknown ==
    [is_git_repo |-> PyBool(FALSE), branch |-> PyStr(<<"u", "n", "k", "n", "o", "w", "n">>),
     is_dirty |-> PyBool(FALSE), commit_hash |-> PyStr(<<>>),
     untracked_files |-> PyList(<<>>), commit_count |-> PyInt(0), remote_url |-> PyNone]

NotARepository ==
    [is_git_repo |-> PyBool(FALSE), branch |-> PyStr(<<"n", "o", "n", "e">>), is_dirty |-> PyBool(FALSE),
     commit_hash |-> PyStr(<<>>), untracked_files |-> PyList(<<>>),
     commit_count |-> PyInt(0), remote_url |-> PyNone]

\* The summary of a repository, from what the six calls gave.
Assembled(probe, o, cch, tss) ==
    [exc |-> IF \A m \in SummaryMethods : o[m].exc = "none" THEN "none"
             ELSE o[CHOOSE m \in SummaryMethods : o[m].exc # "none"].exc,
     ret |-> [is_git_repo |-> PyBool(TRUE),
              branch |-> o["get_current_branch"].ret,
              is_dirty |-> o["is_dirty"].ret,
              commit_hash |-> o["get_last_commit_hash"].ret,
              untracked_files |-> o["get_untracked_files"].ret,
              commit_count |-> o["get_commit_count"].ret,
              remote_url |-> o["get_remote_url"].ret],
     runs |-> probe.runs + o["get_current_branch"].runs + o["is_dirty"].runs
              + o["get_last_commit_hash"].runs + o["get_untracked_files"].runs
              + o["get_commit_count"].runs + o["get_remote_url"].runs,
     nested |-> Cardinality(SummaryMethods),
     c |-> [m \in DOMAIN cch |-> IF m \in SummaryMethods THEN o[m].c ELSE cch[m]],
     ts |-> [m \in DOMAIN tss |-> IF m \in SummaryMethods THEN o[m].ts ELSE tss[m]]]

\* A mutant: the six queries are made whatever the probe answered.
SummaryFromAlways(probe, env, cch, tss) ==
    IF probe.exc # "none"
    THEN [exc |-> probe.exc, ret |-> PyNone, runs |-> probe.runs, nested |-> 0,
          c |-> cch, ts |-> tss]
    ELSE Only({[a EXCEPT !.ret = IF probe.ret.v THEN a.ret ELSE NotARepository] :
               a \in {Assembled(probe, [m \in SummaryMethods |->
                                           SummaryCall(m, env[PointOf(m)].w, cch, tss,
                                                       env[PointOf(m)].now)],
                                 cch, tss)}})

SummaryFrom(probe, env, cch, tss) ==
    IF probe.exc # "none"
    THEN [exc |-> probe.exc, ret |-> PyNone, runs |-> probe.runs, nested |-> 0,
          c |-> cch, ts |-> tss]
    ELSE IF ~probe.ret.v
    THEN [exc |-> "none", ret |-> NotARepository, runs |-> probe.runs, nested |-> 0,
          c |-> cch, ts |-> tss]
    ELSE Only({Assembled(probe, o, cch, tss) :
               o \in {[m \in SummaryMethods |->
                          SummaryCall(m, env[PointOf(m)].w, cch, tss,
                                      env[PointOf(m)].now)]}})

\* get_git_summary(): cch and tss are the stores of all decorated methods,
\* env[1] is the environment of the probe and env[PointOf(m)] that of the
\* memoized call m.
get_git_summary(env, cch, tss) ==
    Only({SummaryFrom(probe, env, cch, tss) : probe \in {is_git_repository(env[1].w)}})

\* The repository changes and the clock advances in the course env.
Spent(env) ==
    ((env[Points].now - env[1].now) \div TickStep)
    + Cardinality({i \in 2..Points : env[i].w # env[i - 1].w})

\* Every change of env is one the call meets: none after a probe that ends
\* the call, and the repository changes only ahead of a git process.
Met(env, cch, tss) ==
    LET probe == is_git_repository(env[1].w)
    IN  IF probe.exc # "none" \/ ~probe.ret.v
        THEN \A i \in 2..Points : env[i] = env[1]
        ELSE \A i \in 2..Points :
                 env[i].w # env[i - 1].w =>
                     SummaryCall(SummaryOrder[i - 1], env[i].w, cch, tss,
                                 env[i].now).runs > 0

-----------------------------------------------------------------------------
(* models/git.py: GitState, the validated snapshot built from a summary.   *)

HexDigits ==
    {"0", "1", "2", "3", "4", "5", "6", "7", "8", "9", "a", "b", "c", "d", "e", "f",
     "A", "B", "C", "D", "E", "F"}

\* str.lower(), on the characters that reach it.
LowerChar(ch) ==
    CASE ch = "A" -> "a" [] ch = "B" -> "b" [] ch = "C" -> "c" [] ch = "D" -> "d"
      [] ch = "E" -> "e" [] ch = "F" -> "f" [] ch = "H" -> "h" [] OTHER -> ch

lower(s) == [i \in 1..Len(s) |-> LowerChar(s[i])]

\* A mutant: the value is stripped before it is compared with "HEAD".
validate_branch_stripped(value) ==
    IF strip(value) = <<"H", "E", "A", "D">>
    THEN <<"d", "e", "t", "a", "c", "h", "e", "d">>
    ELSE strip(value)

validate_branch(value) ==
    IF value = <<"H", "E", "A", "D">> THEN <<"d", "e", "t", "a", "c", "h", "e", "d">>
    ELSE strip(value)

\* A mutant: a hash needs more than 7 characters.
validate_commit_hash_longer(value) ==
    IF value = <<>> THEN <<>>
    ELSE IF Len(value) > 7 /\ \A i \in 1..Len(value) : value[i] \in HexDigits
    THEN lower(value)
    ELSE <<>>

validate_commit_hash(value) ==
    IF value = <<>> THEN <<>>
    ELSE IF Len(value) >= 7 /\ \A i \in 1..Len(value) : value[i] \in HexDigits
    THEN lower(value)
    ELSE <<>>

\* A mutant: every entry is stripped and kept, the empty ones too.
validate_untracked_files_all(value) == [i \in 1..Len(value) |-> strip(value[i])]

validate_untracked_files(value) ==
    LET kept == SelectSeq(value, LAMBDA f : strip(f) # <<>>)
    IN  [i \in 1..Len(kept) |-> strip(kept[i])]

GitStateFields ==
    {"is_git_repo", "branch", "is_dirty", "commit_hash", "untracked_files",
     "commit_count", "remote_url"}

\* The field defaults of the class.
GitStateDefaults ==
    [is_git_repo |-> PyBool(FALSE), branch |-> PyStr(<<"n", "o", "n", "e">>),
     is_dirty |-> PyBool(FALSE), commit_hash |-> PyStr(<<>>),
     untracked_files |-> PyList(<<>>), commit_count |-> PyInt(0), remote_url |-> PyNone]

\* A mutant: commit_count is declared without ge=0.
RejectedUnbounded(raw) ==
    \/ \E k \in DOMAIN raw : k \notin GitStateFields
    \/ \E k \in DOMAIN raw \cap GitStateFields : raw[k] = PyNone /\ k # "remote_url"

\* What pydantic rejects: a key that is no field (extra="forbid"), None for
\* a field that is not optional, a commit_count below 0 (ge=0).
Rejected(raw) ==
    \/ \E k \in DOMAIN raw : k \notin GitStateFields
    \/ \E k \in DOMAIN raw \cap GitStateFields : raw[k] = PyNone /\ k # "remote_url"
    \/ "commit_count" \in DOMAIN raw /\ raw["commit_count"].t = "int"
       /\ raw["commit_count"].v < 0

\* GitState(**raw): a given value goes through the field's validator, a
\* missing field takes its default as it is.
GitState(raw) ==
    IF Rejected(raw) THEN [exc |-> "ValidationError"]
    ELSE [exc |-> "none",
          is_git_repo |-> IF "is_git_repo" \in DOMAIN raw THEN raw["is_git_repo"].v
                          ELSE GitStateDefaults["is_git_repo"].v,
          branch |-> IF "branch" \in DOMAIN raw THEN validate_branch(raw["branch"].v)
                     ELSE GitStateDefaults["branch"].v,
          is_dirty |-> IF "is_dirty" \in DOMAIN raw THEN raw["is_dirty"].v
                       ELSE GitStateDefaults["is_dirty"].v,
          commit_hash |-> IF "commit_hash" \in DOMAIN raw
                          THEN validate_commit_hash(raw["commit_hash"].v)
                          ELSE GitStateDefaults["commit_hash"].v,
          untracked_files |-> IF "untracked_files" \in DOMAIN raw
                              THEN validate_untracked_files(raw["untracked_files"].v)
                              ELSE GitStateDefaults["untracked_files"].v,
          commit_count |-> IF "commit_count" \in DOMAIN raw THEN raw["commit_count"].v
                           ELSE GitStateDefaults["commit_count"].v,
          remote_url |-> IF "remote_url" \in DOMAIN raw THEN raw["remote_url"]
                         ELSE GitStateDefaults["remote_url"]]

\* A mutant: the untracked files are left out.
has_changes_dirty_only(state) == state.is_dirty

has_changes(state) == state.is_dirty \/ state.untracked_files # <<>>

is_clean(state) == ~has_changes(state)

-----------------------------------------------------------------------------
(* The inspector as a state machine: a caller makes one call at a time on  *)
(* one GitOperations instance; between calls time passes and the machine   *)
(* changes.                                                                *)

TestFunc == "func_with_kwargs"
Funcs == Methods \cup {TestFunc}

NoOp == [op |-> "none"]

\* The addresses CPython gives the inspector objects: those of the two
\* inspectors a behaviour may begin with and one more for every operation, so
\* that a new object can always be placed where no object has been. An
\* address is free again once its object is gone.
Addresses ==
    {"0x7f3a5c0d2e10", "0x7f3a5c0d2f50"}
    \cup {"0x7f3a5c0d3" \o ToString(100 + i) : i \in 1..MaxOps}
Free == "free"

\* git_ops = GitOperations(repo_path): one inspector, at the address of Self.
OneInstance == [a \in Addresses |-> IF a = Self.v THEN "P" ELSE Free]

NoOrigin == [f \in Funcs |-> EmptyDict]

\* One caller: no thread is inside the wrapper between two operations.
NoThreads == <<>>
NoHistory == <<>>

\* No GitState has been built yet.
NoState == [exc |-> "unbound"]

\* One decorated method m called as `call`, giving o.
Called(m, call, outcome) ==
    \E o \in {outcome} :
    /\ steps < MaxSteps
    /\ cache' = [cache EXCEPT ![m] = o.c]
    /\ timestamps' = [timestamps EXCEPT ![m] = o.ts]
    /\ steps' = steps + 1
    /\ last' = [op |-> m, call |-> call, exc |-> o.exc, ret |-> o.ret, hit |-> o.hit,
                runs |-> o.runs, nested |-> o.nested]
    /\ UNCHANGED <<clock, ttl, call_count, stored, world, git_state, others>>

Call_get_status ==
    Called("get_status", DefaultCall,
           get_status(world, DefaultCall, cache.get_status, timestamps.get_status, clock))

Call_get_current_branch ==
    Called("get_current_branch", DefaultCall,
           get_current_branch(world, DefaultCall, cache.get_current_branch,
                              timestamps.get_current_branch, clock))

Call_get_last_commit_hash ==
    Called("get_last_commit_hash", DefaultCall,
           get_last_commit_hash(world, DefaultCall, cache.get_last_commit_hash,
                                timestamps.get_last_commit_hash, clock))

Call_is_dirty ==
    \E call \in FlagCalls("untracked_files") :
        Called("is_dirty", call,
               is_dirty(world, call, cache.is_dirty, timestamps.is_dirty, clock))

Call_get_untracked_files ==
    Called("get_untracked_files", DefaultCall,
           get_untracked_files(world, DefaultCall, cache.get_untracked_files,
                               timestamps.get_untracked_files, clock))

\* The changes that may still happen while a call that begins now runs.
Inner == IF MaxSteps - steps - 1 < MaxInner THEN MaxSteps - steps - 1 ELSE MaxInner

\* The fallback of get_changed_files is a second memoized call: it reads
\* the clock again and starts a second git process, so the repository may
\* have changed and time may have passed since the first one. Each such
\* change counts as a step of the behaviour, at most MaxInner of them inside
\* one call.
Call_get_changed_files ==
    \E call \in FlagCalls("staged") :
    \E later \in Moves(At(world, clock), Inner) :
    \E o \in {get_changed_files(world, call, cache.get_changed_files,
                                timestamps.get_changed_files, clock, later)} :
        /\ steps < MaxSteps
        /\ o.nested = 0 => later = At(world, clock)
        /\ o.runs < 2 => later.w = world
        /\ cache' = [cache EXCEPT !["get_changed_files"] = o.c]
        /\ timestamps' = [timestamps EXCEPT !["get_changed_files"] = o.ts]
        /\ steps' = steps + 1 + Cost(At(world, clock), later)
        /\ world' = later.w
        /\ clock' = later.now
        /\ last' = [op |-> "get_changed_files", call |-> call, exc |-> o.exc,
                    ret |-> o.ret, hit |-> o.hit, runs |-> o.runs, nested |-> o.nested]
        /\ UNCHANGED <<ttl, call_count, stored, git_state, others>>

Call_get_commit_count ==
    Called("get_commit_count", DefaultCall,
           get_commit_count(world, DefaultCall, cache.get_commit_count,
                            timestamps.get_commit_count, clock))

Call_get_remote_url ==
    Called("get_remote_url", DefaultCall,
           get_remote_url(world, DefaultCall, cache.get_remote_url,
                          timestamps.get_remote_url, clock))

Call_is_git_repository ==
    \E o \in {is_git_repository(world)} :
        /\ steps < MaxSteps
        /\ steps' = steps + 1
        /\ last' = [op |-> "is_git_repository", call |-> DefaultCall, exc |-> o.exc,
                    ret |-> o.ret, hit |-> FALSE, runs |-> o.runs, nested |-> 0]
        /\ UNCHANGED <<cache, timestamps, clock, ttl, call_count, stored, world, git_state, others>>

\* get_git_summary starts up to seven git processes one after another and
\* each of its six memoized calls reads the clock itself: the repository may
\* change and time may pass between them. Each such change counts as a step
\* of the behaviour, at most MaxInner of them inside one call.
Call_get_git_summary ==
    /\ steps < MaxSteps
    /\ \E rest \in Courses(At(world, clock), Points - 1, Inner) :
       \E env \in {<<At(world, clock)>> \o rest} :
       \E o \in {get_git_summary(env, cache, timestamps)} :
           /\ Met(env, cache, timestamps)
           /\ cache' = o.c
           /\ timestamps' = o.ts
           /\ steps' = steps + 1 + Spent(env)
           /\ world' = env[Points].w
           /\ clock' = env[Points].now
           /\ last' = [op |-> "get_git_summary", call |-> DefaultCall, exc |-> o.exc,
                       ret |-> o.ret, hit |-> FALSE, runs |-> o.runs,
                       nested |-> o.nested]
           /\ UNCHANGED <<ttl, call_count, stored, git_state, others>>

\* Commands a caller hands to the executor itself.
ExecArgs == {<<"diff", "--quiet">>, <<"remote", "get-url", "origin">>}

Call_run_command ==
    \E args \in ExecArgs, check \in BOOLEAN :
    \E o \in {run_command(world, args, check)} :
        /\ steps < MaxSteps
        /\ steps' = steps + 1
        /\ last' = [op |-> "_run_command", call |-> [args |-> args, check |-> check],
                    exc |-> o.exc, error |-> o.error,
                    ret |-> [returncode |-> o.returncode, stdout |-> o.stdout,
                             stderr |-> o.stderr],
                    hit |-> FALSE, runs |-> 1, nested |-> 0]
        /\ UNCHANGED <<cache, timestamps, clock, ttl, call_count, stored, world, git_state, others>>

\* The work tree, the repository or the installation changes.
WorldChange ==
    /\ steps < MaxSteps
    /\ world' \in Worlds \ {world}
    /\ steps' = steps + 1
    /\ last' = NoOp
    /\ UNCHANGED <<cache, timestamps, clock, ttl, call_count, stored, git_state, others>>

\* Time passes between two calls.
Tick ==
    /\ steps < MaxSteps
    /\ clock' = clock + TickStep
    /\ steps' = steps + 1
    /\ last' = NoOp
    /\ UNCHANGED <<cache, timestamps, ttl, call_count, stored, world, git_state, others>>

Init ==
    /\ cache = [f \in Funcs |-> EmptyDict]
    /\ timestamps = [f \in Funcs |-> EmptyDict]
    /\ clock = 0
    /\ ttl = 1
    /\ call_count = 0
    /\ stored = EmptyDict
    /\ world \in Worlds
    /\ steps = 0
    /\ last = NoOp
    /\ git_state = NoState
    /\ instances = OneInstance
    /\ origin = NoOrigin
    /\ threads = NoThreads
    /\ history = NoHistory

Next ==
    \/ Call_get_status
    \/ Call_get_current_branch
    \/ Call_get_last_commit_hash
    \/ Call_is_dirty
    \/ Call_get_untracked_files
    \/ Call_get_changed_files
    \/ Call_get_commit_count
    \/ Call_get_remote_url
    \/ Call_is_git_repository
    \/ Call_get_git_summary
    \/ Call_run_command
    \/ WorldChange
    \/ Tick

Spec == Init /\ [][Next]_vars

-----------------------------------------------------------------------------
(* The memoizer on the producers of tests/test_caching.py.                 *)

\* func_with_kwargs(a, b=0): Python binds the call to the parameters.
BindA(args, kwargs) == IF Len(args) >= 1 THEN args[1] ELSE kwargs["a"]
BindB(args, kwargs) ==
    IF Len(args) >= 2 THEN args[2]
    ELSE IF "b" \in DOMAIN kwargs THEN kwargs["b"] ELSE PyInt(0)

\* The producer: call_count += 1, and a result that carries a + b and, as
\* time_sensitive() does, the number of the invocation that computed it.
producer(args, kwargs, n) ==
    [sum |-> PyInt(BindA(args, kwargs).v + BindB(args, kwargs).v), call |-> n]

ArgA == {PyInt(5)}
ArgB == {PyInt(b) : b \in 0..MaxArg}

\* The ways the tests call func_with_kwargs: f(a), f(a, b), f(a, b=v), f(a=.., b=..).
TestCalls ==
    {[args |-> <<a>>, kwargs |-> EmptyDict] : a \in ArgA}
    \cup {[args |-> <<a, b>>, kwargs |-> EmptyDict] : a \in ArgA, b \in ArgB}
    \cup {[args |-> <<a>>, kwargs |-> ("b" :> b)] : a \in ArgA, b \in ArgB}
    \cup {[args |-> <<>>, kwargs |-> ("a" :> a @@ "b" :> b)] : a \in ArgA, b \in ArgB}

\* wrapper(*args, **kwargs) on the decorated test producer.
MemoCall(x) ==
    \E o \in {wrapper(cache[TestFunc], timestamps[TestFunc], ttl,
                      CacheKey(x.args, x.kwargs), clock,
                      Returned(producer(x.args, x.kwargs, call_count + 1), 0,
                               cache[TestFunc], timestamps[TestFunc]))} :
        /\ o.hit \/ call_count < MaxCalls
        /\ call_count' = IF o.hit THEN call_count ELSE call_count + 1
        /\ cache' = [cache EXCEPT ![TestFunc] = o.c]
        /\ timestamps' = [timestamps EXCEPT ![TestFunc] = o.ts]
        /\ stored' = IF o.hit THEN stored
                     ELSE DictSet(stored, <<x.args, x.kwargs>>,
                                  [value |-> o.ret, time |-> clock])
        /\ last' = [op |-> "call", args |-> x.args, kwargs |-> x.kwargs,
                    hit |-> o.hit, ret |-> o.ret,
                    had |-> <<x.args, x.kwargs>> \in DOMAIN stored,
                    wiped |-> last.op = "cache_clear"
                              /\ <<x.args, x.kwargs>> \in last.fresh]
        /\ UNCHANGED <<clock, ttl, world, steps, git_state, others>>

\* wrapper(*args, **kwargs) when the producer, once invoked, raises after
\* counting the invocation.
MemoCallRaising(x) ==
    \E o \in {wrapper(cache[TestFunc], timestamps[TestFunc], ttl,
                      CacheKey(x.args, x.kwargs), clock,
                      Raised("ValueError", 0, cache[TestFunc], timestamps[TestFunc]))} :
        /\ ~o.hit
        /\ call_count < MaxCalls
        /\ call_count' = call_count + 1
        /\ cache' = [cache EXCEPT ![TestFunc] = o.c]
        /\ timestamps' = [timestamps EXCEPT ![TestFunc] = o.ts]
        /\ last' = [op |-> "raise", args |-> x.args, kwargs |-> x.kwargs,
                    hit |-> FALSE, exc |-> o.exc]
        /\ UNCHANGED <<clock, ttl, stored, world, steps, git_state, others>>

\* wrapper.cache_clear()
MemoClear ==
    \E o \in {cache_clear(cache[TestFunc], timestamps[TestFunc])} :
    /\ cache' = [cache EXCEPT ![TestFunc] = o.c]
    /\ timestamps' = [timestamps EXCEPT ![TestFunc] = o.ts]
    /\ stored' = EmptyDict
    /\ last' = [op |-> "cache_clear",
                fresh |-> {x \in DOMAIN stored : clock - stored[x].time < ttl}]
    /\ UNCHANGED <<clock, ttl, call_count, world, steps, git_state, others>>

\* wrapper.cache_info()
MemoInfo ==
    /\ last' = [op |-> "cache_info", ret |-> cache_info(cache[TestFunc], ttl)]
    /\ UNCHANGED <<cache, timestamps, clock, ttl, call_count, stored, world, steps, git_state, others>>

\* Time passes between two operations.
MemoTick ==
    /\ clock < MaxClock
    /\ clock' = clock + 1
    /\ last' = NoOp
    /\ UNCHANGED <<cache, timestamps, ttl, call_count, stored, world, steps, git_state, others>>

MemoInit ==
    /\ cache = [f \in Funcs |-> EmptyDict]
    /\ timestamps = [f \in Funcs |-> EmptyDict]
    /\ clock = 0
    /\ ttl \in 1..MaxTTL
    /\ call_count = 0
    /\ stored = EmptyDict
    /\ world = W_Clean
    /\ steps = 0
    /\ last = NoOp
    /\ git_state = NoState
    /\ instances = OneInstance
    /\ origin = NoOrigin
    /\ threads = NoThreads
    /\ history = NoHistory

MemoNext ==
    \/ \E x \in TestCalls : MemoCall(x)
    \/ \E x \in TestCalls : MemoCallRaising(x)
    \/ MemoClear
    \/ MemoInfo
    \/ MemoTick

SpecCache == MemoInit /\ [][MemoNext]_vars

-----------------------------------------------------------------------------
(* GitState in the hands of a caller: it builds one from a raw mapping,    *)
(* as cli/commit.py does from a summary, asks it its derived queries, and  *)
(* may assign to its fields or append to its list.                         *)

Text_abc123 == <<"a", "b", "c", "1", "2", "3">>
Text_ABC123D == <<"A", "B", "C", "1", "2", "3", "D">>

\* A text as it is, and with whitespace before it, after it and around it.
Padded(core) ==
    {core, <<" ">> \o core, core \o <<NL>>, <<"\t">> \o core \o <<" ", NL>>}

BranchInputs ==
    UNION {Padded(core) : core \in {Text_HEAD, Text_main, <<>>, <<"a", " ", "b">>}}

HashInputs ==
    {h \o t : h \in {<<>>, Text_abc123, Text_hash, Text_ABC123D},
              t \in {<<>>, <<"e">>, <<"g">>, <<" ">>, <<"E", "F">>}}

FileInputs == Padded(File_a_py) \cup {<<>>, <<" ">>, File_new_txt}

FileLists == UNION {[1..n -> FileInputs] : n \in 0..MaxFiles}

CountInputs == {0 - 1, 0, 3}

\* The summaries get_git_summary() gives on a first call, in a repository
\* that stays as it is while the call runs.
Summaries ==
    {get_git_summary(Steady(w, 0), [f \in Funcs |-> EmptyDict],
                     [f \in Funcs |-> EmptyDict]).ret :
         w \in Worlds}

\* The raw mappings a caller builds a GitState from.
RawInputs ==
    {EmptyDict}
    \cup {"branch" :> PyStr(b) : b \in BranchInputs}
    \cup {"commit_hash" :> PyStr(h) : h \in HashInputs}
    \cup {"is_dirty" :> PyBool(d) @@ "untracked_files" :> PyList(l) :
              d \in BOOLEAN, l \in FileLists}
    \cup {"commit_count" :> PyInt(n) : n \in CountInputs}
    \cup {"is_git_repo" :> PyBool(FALSE) @@ "branch" :> PyStr(Text_main)
              @@ "commit_count" :> PyInt(3)}
    \cup {"branch" :> PyStr(Text_main) @@ "author" :> PyStr(Text_main)}
    \cup {"branch" :> PyNone}
    \cup Summaries

\* git_state = GitState(**raw)
Construct ==
    \E raw \in RawInputs :
    LET o == GitState(raw) IN
        /\ steps < MaxSteps
        /\ steps' = steps + 1
        /\ git_state' = IF o.exc = "none" THEN o ELSE git_state
        /\ last' = [op |-> "GitState", raw |-> raw, exc |-> o.exc, ret |-> o]
        /\ UNCHANGED <<cache, timestamps, clock, ttl, call_count, stored, world, others>>

\* The assignments a holder makes: the class sets neither frozen nor
\* validate_assignment, so the value is stored as given.
Assignments ==
    {<<"branch", Text_HEAD>>, <<"commit_hash", <<"x">>>>, <<"is_dirty", TRUE>>,
     <<"commit_count", 0 - 1>>, <<"untracked_files", <<<<" ">>>>>>}

\* git_state.<field> = value
SetField ==
    \E a \in Assignments :
        /\ git_state.exc = "none"
        /\ steps < MaxSteps
        /\ steps' = steps + 1
        /\ git_state' = [git_state EXCEPT ![a[1]] = a[2]]
        /\ last' = [op |-> "setattr", field |-> a[1], value |-> a[2], exc |-> "none"]
        /\ UNCHANGED <<cache, timestamps, clock, ttl, call_count, stored, world, others>>

\* git_state.untracked_files.append(f)
AppendUntracked ==
    \E f \in {<<>>, File_new_txt} :
        /\ git_state.exc = "none"
        /\ steps < MaxSteps
        /\ steps' = steps + 1
        /\ git_state' = [git_state EXCEPT !.untracked_files = Append(@, f)]
        /\ last' = [op |-> "append", value |-> f, exc |-> "none"]
        /\ UNCHANGED <<cache, timestamps, clock, ttl, call_count, stored, world, others>>

\* git_state.has_changes()
Call_has_changes ==
    /\ git_state.exc = "none"
    /\ steps < MaxSteps
    /\ steps' = steps + 1
    /\ last' = [op |-> "has_changes", exc |-> "none", ret |-> has_changes(git_state)]
    /\ UNCHANGED <<cache, timestamps, clock, ttl, call_count, stored, world, git_state, others>>

\* git_state.is_clean()
Call_is_clean ==
    /\ git_state.exc = "none"
    /\ steps < MaxSteps
    /\ steps' = steps + 1
    /\ last' = [op |-> "is_clean", exc |-> "none", ret |-> is_clean(git_state)]
    /\ UNCHANGED <<cache, timestamps, clock, ttl, call_count, stored, world, git_state, others>>

StateInit ==
    /\ cache = [f \in Funcs |-> EmptyDict]
    /\ timestamps = [f \in Funcs |-> EmptyDict]
    /\ clock = 0
    /\ ttl = 1
    /\ call_count = 0
    /\ stored = EmptyDict
    /\ world = W_Clean
    /\ steps = 0
    /\ last = NoOp
    /\ git_state = NoState
    /\ instances = OneInstance
    /\ origin = NoOrigin
    /\ threads = NoThreads
    /\ history = NoHistory

StateNext ==
    \/ Construct
    \/ SetField
    \/ AppendUntracked
    \/ Call_has_changes
    \/ Call_is_clean

SpecState == StateInit /\ [][StateNext]_vars

-----------------------------------------------------------------------------
(* Several inspectors in one process.  The stores of a decorated method    *)
(* belong to the function object made when the class body ran, so every    *)
(* GitOperations instance reaches the same two dicts; the key names the    *)
(* instance by the address in its default repr.                            *)

Paths == {"P", "Q"}

\* The repository git finds at each path: different branches checked out.
RepoAt(path) == IF path = "P" THEN W_Clean ELSE W_Detached

Obj(a) == [t |-> "object", v |-> a]

PathMethods == {"get_current_branch", "get_last_commit_hash"}

\* git_ops.<m>() on the instance at address a, which runs git in path.
MethodCall(m, a, path, c, ts, now) ==
    CASE m = "get_current_branch" ->
            get_current_branch(RepoAt(path), [args |-> <<Obj(a)>>, kwargs |-> EmptyDict],
                               c, ts, now)
      [] m = "get_last_commit_hash" ->
            get_last_commit_hash(RepoAt(path), [args |-> <<Obj(a)>>, kwargs |-> EmptyDict],
                                 c, ts, now)

\* A mutant: cache_clear() of one method empties the stores of all methods.
clear_method_all(cch, tss, m) ==
    [c |-> [f \in DOMAIN cch |-> EmptyDict], ts |-> [f \in DOMAIN tss |-> EmptyDict]]

\* git_ops.<m>.cache_clear(): the bound method hands the attribute of the
\* one decorated function, whose closure holds the stores of method m.
clear_method(cch, tss, m) ==
    Only({[c |-> [cch EXCEPT ![m] = o.c], ts |-> [tss EXCEPT ![m] = o.ts]] :
          o \in {cache_clear(cch[m], tss[m])}})

\* GitOperations(path): the new object gets an address that is free, one
\* that an earlier object has left or one that was never used.
Create ==
    \E a \in Addresses, path \in Paths :
        /\ steps < MaxOps
        /\ instances[a] = Free
        /\ instances' = [instances EXCEPT ![a] = path]
        /\ steps' = steps + 1
        /\ last' = [op |-> "__init__", inst |-> a, path |-> path]
        /\ UNCHANGED <<cache, timestamps, clock, ttl, call_count, stored, world,
                       git_state, origin, threads, history>>

\* The last reference to an instance goes away: its address is free again.
Destroy ==
    \E a \in Addresses :
        /\ steps < MaxOps
        /\ instances[a] # Free
        /\ instances' = [instances EXCEPT ![a] = Free]
        /\ steps' = steps + 1
        /\ last' = [op |-> "del", inst |-> a, path |-> instances[a]]
        /\ UNCHANGED <<cache, timestamps, clock, ttl, call_count, stored, world,
                       git_state, origin, threads, history>>

\* git_ops.repo_path = path
Reassign ==
    \E a \in Addresses, path \in Paths :
        /\ steps < MaxOps
        /\ instances[a] \notin {Free, path}
        /\ instances' = [instances EXCEPT ![a] = path]
        /\ steps' = steps + 1
        /\ last' = [op |-> "setattr", inst |-> a, path |-> path]
        /\ UNCHANGED <<cache, timestamps, clock, ttl, call_count, stored, world,
                       git_state, origin, threads, history>>

\* git_ops.<m>() on a live instance.
Query ==
    \E a \in Addresses, m \in PathMethods :
        /\ steps < MaxOps
        /\ instances[a] # Free
        /\ \E o \in {MethodCall(m, a, instances[a], cache[m], timestamps[m], clock)},
              key \in {KeyOf([args |-> <<Obj(a)>>, kwargs |-> EmptyDict])} :
              /\ cache' = [cache EXCEPT ![m] = o.c]
              /\ timestamps' = [timestamps EXCEPT ![m] = o.ts]
              /\ origin' = IF o.hit THEN origin
                            ELSE [origin EXCEPT ![m] = DictSet(@, key, instances[a])]
              /\ last' = [op |-> m, inst |-> a, path |-> instances[a], hit |-> o.hit,
                          exc |-> o.exc, ret |-> o.ret, runs |-> o.runs,
                          computed_in |-> origin'[m][key]]
        /\ steps' = steps + 1
        /\ UNCHANGED <<clock, ttl, call_count, stored, world, git_state, instances,
                       threads, history>>

\* git_ops.<m>.cache_clear() through a live instance.
ClearVia ==
    \E a \in Addresses, m \in PathMethods :
        /\ steps < MaxOps
        /\ instances[a] # Free
        /\ \E o \in {clear_method(cache, timestamps, m)} :
              /\ cache' = o.c
              /\ timestamps' = o.ts
        /\ origin' = [origin EXCEPT ![m] = EmptyDict]
        /\ steps' = steps + 1
        /\ last' = [op |-> "cache_clear", inst |-> a, method |-> m,
                    dropped |-> DOMAIN cache[m]]
        /\ UNCHANGED <<clock, ttl, call_count, stored, world, git_state, instances,
                       threads, history>>

\* Time passes between two operations.
PathTick ==
    /\ steps < MaxOps
    /\ clock' = clock + TickStep
    /\ steps' = steps + 1
    /\ last' = NoOp
    /\ UNCHANGED <<cache, timestamps, ttl, call_count, stored, world, git_state, others>>

\* g1 = GitOperations(P); g2 = GitOperations(Q): two inspectors, every other
\* address free.
TwoInstances ==
    [a \in Addresses |->
        IF a = Self.v THEN "P" ELSE IF a = "0x7f3a5c0d2f50" THEN "Q" ELSE Free]

\* Two inspectors alive, one for each path.
PathInit ==
    /\ cache = [f \in Funcs |-> EmptyDict]
    /\ timestamps = [f \in Funcs |-> EmptyDict]
    /\ clock = 0
    /\ ttl = 1
    /\ call_count = 0
    /\ stored = EmptyDict
    /\ world = W_Clean
    /\ steps = 0
    /\ last = NoOp
    /\ git_state = NoState
    /\ instances = TwoInstances
    /\ origin = NoOrigin
    /\ threads = NoThreads
    /\ history = NoHistory

PathNext ==
    \/ Create
    \/ Destroy
    \/ Reassign
    \/ Query
    \/ ClearVia
    \/ PathTick

SpecPaths == PathInit /\ [][PathNext]_vars

-----------------------------------------------------------------------------
(* The memoizer called from two threads without a lock.  A thread can be   *)
(* suspended between any two statements that reach the shared dicts, so    *)
(* the wrapper and cache_clear() are taken statement by statement; the     *)
(* producer runs for as long as the clock is let advance meanwhile.        *)

Threads == {1, 2}

MaxStarts == 4     \* calls and clears the threads begin in a behaviour
MaxSpan == 1       \* the clock of the thread specification stops here

Idle == [pc |-> "idle"]

\* The call the threads make: f(5), the one key they contend for.
ThreadCalls ==
    {[args |-> <<PyInt(5)>>, kwargs |-> EmptyDict]}

\* Another thread is inside the wrapper or inside cache_clear().
Overlaps(t) == \E u \in Threads \ {t} : threads[u].pc # "idle"

\* The history with one more producer invocation: for key, by the call that
\* read current_time, beginning now.
Logged(h, key, current_time, now, ttl_seconds) ==
    [h EXCEPT
        !.log = Append(@, [key |-> key, stamp |-> current_time, began |-> now,
                           ended |-> now, cleared |-> FALSE]),
        !.twice = @ \/ \E i \in 1..Len(h.log) :
                          /\ h.log[i].key = key
                          /\ ~h.log[i].cleared
                          /\ current_time - h.log[i].stamp < ttl_seconds]

\* A mutant: the timestamp written is the clock reading at the store.
stamp_at_store(ts, key, current_time, now) == DictSet(ts, key, now)

\* A mutant: the timestamp is never written.
stamp_skipped(ts, key, current_time, now) == ts

\* timestamps[key] = current_time
stamp(ts, key, current_time, now) == DictSet(ts, key, current_time)

\* key = str(args) + str(sorted(kwargs.items())); current_time = time.time()
Enter(t) ==
    \E x \in ThreadCalls :
        /\ threads[t].pc = "idle"
        /\ steps < MaxStarts
        /\ steps' = steps + 1
        /\ threads' = [threads EXCEPT ![t] =
                           [pc |-> "timed", args |-> x.args, kwargs |-> x.kwargs,
                            key |-> CacheKey(x.args, x.kwargs), current_time |-> clock]]
        /\ history' = [history EXCEPT !.overlapped = @ \/ Overlaps(t)]
        /\ UNCHANGED <<cache, timestamps, clock, ttl, call_count, stored, world, last,
                       git_state, instances, origin>>

\* `key in cache`: when false, the function is called.
Find(t) ==
    /\ threads[t].pc = "timed"
    /\ threads' = [threads EXCEPT ![t].pc =
                       IF threads[t].key \in DOMAIN cache[TestFunc]
                       THEN "lookup" ELSE "calling"]
    /\ UNCHANGED <<cache, timestamps, clock, ttl, call_count, stored, world, steps, last,
                   git_state, instances, origin, history>>

\* `current_time - timestamps[key] < ttl_seconds`: KeyError when the
\* timestamp store has no such key; when false, the function is called.
Lookup(t) ==
    \E me \in {threads[t]} :
        /\ me.pc = "lookup"
        /\ IF me.key \notin DOMAIN timestamps[TestFunc]
           THEN /\ threads' = [threads EXCEPT ![t] = Idle]
                /\ last' = [op |-> "call", key |-> me.key, exc |-> "KeyError",
                            hit |-> FALSE, ret |-> PyNone]
           ELSE /\ threads' = [threads EXCEPT ![t].pc =
                                   IF me.current_time - timestamps[TestFunc][me.key] < ttl
                                   THEN "serve" ELSE "calling"]
                /\ UNCHANGED last
        /\ UNCHANGED <<cache, timestamps, clock, ttl, call_count, stored, world, steps,
                       git_state, instances, origin, history>>

\* return cache[key]: KeyError when the value store has lost the key.
Serve(t) ==
    \E me \in {threads[t]} :
        /\ me.pc = "serve"
        /\ threads' = [threads EXCEPT ![t] = Idle]
        /\ last' = IF me.key \in DOMAIN cache[TestFunc]
                   THEN [op |-> "call", key |-> me.key, exc |-> "none",
                         hit |-> TRUE, ret |-> cache[TestFunc][me.key]]
                   ELSE [op |-> "call", key |-> me.key, exc |-> "KeyError",
                         hit |-> FALSE, ret |-> PyNone]
        /\ UNCHANGED <<cache, timestamps, clock, ttl, call_count, stored, world, steps,
                       git_state, instances, origin, history>>

\* result = func(*args, **kwargs) begins: the producer counts the invocation.
Call(t) ==
    \E me \in {threads[t]} :
        /\ me.pc = "calling"
        /\ call_count < MaxCalls
        /\ call_count' = call_count + 1
        /\ threads' = [threads EXCEPT ![t] =
                           [pc |-> "running", args |-> me.args, kwargs |-> me.kwargs,
                            key |-> me.key, current_time |-> me.current_time,
                            n |-> call_count + 1]]
        /\ history' = Logged(history, me.key, me.current_time, clock, ttl)
        /\ UNCHANGED <<cache, timestamps, clock, ttl, stored, world, steps, last,
                       git_state, instances, origin>>

\* The function returns: result is bound.
Return(t) ==
    /\ threads[t].pc = "running"
    /\ \E me \in {threads[t]} :
           /\ threads' = [threads EXCEPT ![t] =
                              [pc |-> "returned", args |-> me.args, kwargs |-> me.kwargs,
                               key |-> me.key, current_time |-> me.current_time,
                               n |-> me.n,
                               result |-> producer(me.args, me.kwargs, me.n)]]
           /\ history' = [history EXCEPT !.log[me.n].ended = clock]
    /\ UNCHANGED <<cache, timestamps, clock, ttl, call_count, stored, world, steps, last,
                   git_state, instances, origin>>

\* cache[key] = result
Store(t) ==
    /\ threads[t].pc = "returned"
    /\ cache' = [cache EXCEPT ![TestFunc] = DictSet(@, threads[t].key, threads[t].result)]
    /\ threads' = [threads EXCEPT ![t].pc = "stamp"]
    /\ UNCHANGED <<timestamps, clock, ttl, call_count, stored, world, steps, last,
                   git_state, instances, origin, history>>

\* timestamps[key] = current_time; return result
Stamp(t) ==
    \E me \in {threads[t]} :
        /\ me.pc = "stamp"
        /\ timestamps' = [timestamps EXCEPT ![TestFunc] =
                              stamp(@, me.key, me.current_time, clock)]
        /\ threads' = [threads EXCEPT ![t] = Idle]
        /\ last' = [op |-> "call", key |-> me.key, exc |-> "none", hit |-> FALSE,
                    ret |-> me.result]
        /\ UNCHANGED <<cache, clock, ttl, call_count, stored, world, steps,
                       git_state, instances, origin, history>>

\* cache_clear(): cache.clear()
ClearValues(t) ==
    /\ threads[t].pc = "idle"
    /\ steps < MaxStarts
    /\ steps' = steps + 1
    /\ cache' = [cache EXCEPT ![TestFunc] = EmptyDict]
    /\ threads' = [threads EXCEPT ![t] = [pc |-> "clearing"]]
    /\ history' = [history EXCEPT
                       !.overlapped = @ \/ Overlaps(t),
                       !.log = [i \in 1..Len(@) |-> [@[i] EXCEPT !.cleared = TRUE]]]
    /\ UNCHANGED <<timestamps, clock, ttl, call_count, stored, world, last,
                   git_state, instances, origin>>

\* cache_clear(): timestamps.clear()
ClearStamps(t) ==
    /\ threads[t].pc = "clearing"
    /\ timestamps' = [timestamps EXCEPT ![TestFunc] = EmptyDict]
    /\ threads' = [threads EXCEPT ![t] = Idle]
    /\ last' = [op |-> "cache_clear"]
    /\ UNCHANGED <<cache, clock, ttl, call_count, stored, world, steps,
                   git_state, instances, origin, history>>

\* Time passes, also while a producer runs.
ThreadTick ==
    /\ clock < MaxSpan
    /\ clock' = clock + 1
    /\ UNCHANGED <<cache, timestamps, ttl, call_count, stored, world, steps, last,
                   git_state, others>>

ThreadInit ==
    /\ cache = [f \in Funcs |-> EmptyDict]
    /\ timestamps = [f \in Funcs |-> EmptyDict]
    /\ clock = 0
    /\ ttl \in 1..MaxTTL
    /\ call_count = 0
    /\ stored = EmptyDict
    /\ world = W_Clean
    /\ steps = 0
    /\ last = NoOp
    /\ git_state = NoState
    /\ instances = OneInstance
    /\ origin = NoOrigin
    /\ threads = [t \in Threads |-> Idle]
    /\ history = [log |-> <<>>, overlapped |-> FALSE, twice |-> FALSE]

ThreadNext ==
    \/ \E t \in Threads : Enter(t)
    \/ \E t \in Threads : Find(t)
    \/ \E t \in Threads : Lookup(t)
    \/ \E t \in Threads : Serve(t)
    \/ \E t \in Threads : Call(t)
    \/ \E t \in Threads : Return(t)
    \/ \E t \in Threads : Store(t)
    \/ \E t \in Threads : Stamp(t)
    \/ \E t \in Threads : ClearValues(t)
    \/ \E t \in Threads : ClearStamps(t)
    \/ ThreadTick

SpecThreads == ThreadInit /\ [][ThreadNext]_vars

-----------------------------------------------------------------------------
(* Properties of the memoizer, checked under SpecCache.                    *)

\* The call the last operation made, as the history `stored` names it.
LastCall == <<last.args, last.kwargs>>

\* C1: a repeated call less than ttl after the stored timestamp returns the
\* stored value without invoking the producer; at ttl or more the producer
\* is invoked again and its new value returned; a call with arguments not
\* seen before always invokes the producer.
C1_TTLWindow ==
    [][last'.op = "call" =>
        LET x == <<last'.args, last'.kwargs>>
        IN  IF x \in DOMAIN stored /\ clock - stored[x].time < ttl
            THEN /\ last'.hit
                 /\ last'.ret = stored[x].value
                 /\ call_count' = call_count
            ELSE /\ ~last'.hit
                 /\ call_count' = call_count + 1
                 /\ last'.ret = producer(last'.args, last'.kwargs, call_count')]_vars

\* A call repeated once its entry has expired: the producer ran a second time.
C1_Expired ==
    /\ last.op = "call"
    /\ last.had
    /\ ~last.hit
    /\ last.ret.call = 2
    /\ clock - stored[LastCall].time = 0

\* The keyword form of a positional call f(a, v), and the positional form of
\* a keyword call f(a, b=v).
HasTwin(x) ==
    \/ Len(x[1]) = 2 /\ DOMAIN x[2] = {}
    \/ Len(x[1]) = 1 /\ DOMAIN x[2] = {"b"}
Twin(x) ==
    IF Len(x[1]) = 2 THEN <<SubSeq(x[1], 1, 1), "b" :> x[1][2]>>
    ELSE <<x[1] \o <<x[2]["b"]>>, EmptyDict>>

Fresh(x) == x \in DOMAIN stored /\ clock - stored[x].time < ttl

\* C10: f(a, b=v) and f(a, v) occupy different cache entries: a call in one
\* form, made inside the TTL window of the other form and not itself cached,
\* invokes the producer and adds an entry; repeating a form inside its own
\* window is a hit.
C10_PositionalKeywordDistinct ==
    [][last'.op = "call" /\ HasTwin(<<last'.args, last'.kwargs>>) =>
        LET x == <<last'.args, last'.kwargs>>
        IN  /\ Fresh(Twin(x)) /\ x \notin DOMAIN stored =>
                /\ ~last'.hit
                /\ call_count' = call_count + 1
                /\ CacheKey(x[1], x[2]) \notin DOMAIN cache[TestFunc]
                /\ DOMAIN cache'[TestFunc] =
                       DOMAIN cache[TestFunc] \cup {CacheKey(x[1], x[2])}
            /\ Fresh(x) => last'.hit /\ cache' = cache]_vars

\* The second form was just called inside the window of the first: the
\* producer ran for it and both forms are cached.
C10_BothForms ==
    /\ last.op = "call"
    /\ HasTwin(LastCall)
    /\ ~last.hit
    /\ ~last.had
    /\ Fresh(Twin(LastCall))
    /\ BindB(last.args, last.kwargs).v = 1
    /\ Cardinality(DOMAIN cache[TestFunc]) = 2

-----------------------------------------------------------------------------
(* Properties of the inspector, checked under Spec.                        *)

ProbeArgs == <<"rev-parse", "--git-dir">>

\* The command ran and exited with a non-zero status.
ExitsNonZero(w, args) == w.tool /\ GitTool(w, args).returncode # 0

\* The command failed: git could not be started, or exited non-zero.
Fails(w, args) == ~w.tool \/ ExitsNonZero(w, args)

QueryMethods == Methods \cup {"is_git_repository", "get_git_summary"}

\* The repository changes made while the step's call ran (a step also counts
\* the call itself and the clock advances made while it ran).
WorldChanges == steps' - steps - 1 - ((clock' - clock) \div TickStep)

\* The call of the step found one and the same repository throughout.
Undisturbed == WorldChanges = 0

\* C2: on an existing path that is not a repository (the probe exits
\* non-zero) get_git_summary() returns exactly the not-a-repository mapping.
C2_NotARepositorySummary ==
    [][/\ last'.op = "get_git_summary"
       /\ ExitsNonZero(world, ProbeArgs)
       /\ Undisturbed
       => last'.exc = "none" /\ last'.ret = NotARepository]_vars

IsText(s) == \A i \in DOMAIN s : s[i] \in STRING

\* C3: whatever the tool does and whatever is cached, the mapping returned by
\* get_git_summary() has exactly the seven keys, with values of type bool,
\* str, bool, str, list of str, int and optional str.
C3_SummaryShape ==
    last.op = "get_git_summary" =>
        /\ last.exc = "none"
        /\ DOMAIN last.ret = GitStateFields
        /\ last.ret.is_git_repo.t = "bool" /\ last.ret.is_git_repo.v \in BOOLEAN
        /\ last.ret.branch.t = "str" /\ IsText(last.ret.branch.v)
        /\ last.ret.is_dirty.t = "bool" /\ last.ret.is_dirty.v \in BOOLEAN
        /\ last.ret.commit_hash.t = "str" /\ IsText(last.ret.commit_hash.v)
        /\ last.ret.untracked_files.t = "list"
        /\ \A i \in DOMAIN last.ret.untracked_files.v :
               IsText(last.ret.untracked_files.v[i])
        /\ last.ret.commit_count.t = "int" /\ last.ret.commit_count.v \in Int
        /\ \/ last.ret.remote_url = PyNone
           \/ last.ret.remote_url.t = "str" /\ IsText(last.ret.remote_url.v)

\* A summary assembled from output that is no git output at all: every
\* command ran, and the count that could not be parsed is the integer 0.
C3_GarbledSummary ==
    /\ last.op = "get_git_summary"
    /\ world.garbled
    /\ last.runs = 7
    /\ last.ret.commit_count = PyInt(0)
    /\ last.ret.untracked_files.v # <<>>

\* C4: no query method propagates an exception to its caller, whatever the
\* executor does (tool not found, non-zero exit, malformed stdout) and
\* whatever is cached; each returns a value.
C4_NoExceptionEscapes ==
    last.op \in QueryMethods =>
        /\ last.exc = "none"
        /\ last.op # "get_remote_url" => last.ret # PyNone

\* get_commit_count() ran on output that int() rejects and returned 0.
C4_MalformedCount ==
    /\ last.op = "get_commit_count"
    /\ world.garbled
    /\ ~last.hit
    /\ last.runs = 1
    /\ last.ret = PyInt(0)

\* C5: is_git_repository() issues the probe on every call, never raises, and
\* returns false on any failure of the probe, a non-zero exit included.
C5_ProbeFalseOnFailure ==
    last.op = "is_git_repository" =>
        /\ last.runs = 1
        /\ last.exc = "none"
        /\ Fails(world, ProbeArgs) => last.ret = PyBool(FALSE)

NoCachedEntries == \A m \in Methods : cache[m] = EmptyDict /\ timestamps[m] = EmptyDict

\* The repository of the scenario: no commits, one untracked file new.txt,
\* nothing tracked and so nothing modified or staged.
OneUntrackedNoCommits(w) ==
    /\ w.tool /\ w.repo /\ ~w.garbled
    /\ w.head = "unborn" /\ w.commits = 0
    /\ w.staged = <<>> /\ w.modified = <<>> /\ w.untracked = <<File_new_txt>>

\* What the scenario's four queries give, is_dirty() being `dirty`.
ScenarioValues(dirty) ==
    /\ last'.exc = "none"
    /\ last'.op = "get_commit_count" => last'.ret = PyInt(0)
    /\ last'.op = "is_dirty" /\ last'.call = DefaultCall => last'.ret = PyBool(dirty)
    /\ last'.op = "get_untracked_files" => last'.ret = PyList(<<File_new_txt>>)
    /\ last'.op = "get_git_summary" =>
           /\ last'.ret.commit_count = PyInt(0)
           /\ last'.ret.is_dirty = PyBool(dirty)
           /\ last'.ret.untracked_files = PyList(<<File_new_txt>>)
           /\ GitState(last'.ret).exc = "none"
           /\ has_changes(GitState(last'.ret))

ScenarioQueries == {"get_commit_count", "is_dirty", "get_untracked_files", "get_git_summary"}

\* C6 as stated: in a repository with one untracked file new.txt, no tracked
\* modifications and no commits, queried with empty caches, get_commit_count()
\* is 0, is_dirty() is false, get_untracked_files() is ["new.txt"] and the
\* GitState built from the summary has has_changes() true.
C6_ScenarioAsStated ==
    [][/\ OneUntrackedNoCommits(world)
       /\ NoCachedEntries
       /\ last'.op \in ScenarioQueries
       /\ Undisturbed
       => ScenarioValues(FALSE)]_vars

\* C6 amended: the same scenario, with is_dirty() true: the default scope of
\* is_dirty() includes the untracked files. The repository is the scenario's
\* for as long as the query runs.
C6_ScenarioDirty ==
    [][/\ OneUntrackedNoCommits(world)
       /\ NoCachedEntries
       /\ last'.op \in ScenarioQueries
       /\ Undisturbed
       => ScenarioValues(TRUE)]_vars

\* The summary of the scenario's repository, taken as the first query.
C6_ScenarioSummary ==
    /\ OneUntrackedNoCommits(world)
    /\ steps = 1
    /\ last.op = "get_git_summary"
    /\ last.runs = 7
    /\ last.ret.is_git_repo = PyBool(TRUE)
    /\ is_clean(GitState(last.ret)) = FALSE

BranchArgs == <<"rev-parse", "--abbrev-ref", "HEAD">>

\* C7: when its function runs, get_current_branch() returns "unknown" if the
\* command fails (git absent, or a non-zero exit) and the stripped branch
\* name only if the command succeeds.
C7_UnknownOnFailure ==
    last.op = "get_current_branch" /\ ~last.hit =>
        IF Fails(world, BranchArgs)
        THEN last.ret = PyStr(Text_unknown)
        ELSE last.ret = PyStr(strip(GitTool(world, BranchArgs).stdout))

HashArgs == <<"rev-parse", "HEAD">>

\* C8: when its function runs, get_last_commit_hash() returns "" if the
\* command fails (git absent, or a non-zero exit, whatever it printed) and
\* the full commit identifier only if the command succeeds.
C8_EmptyOnFailure ==
    last.op = "get_last_commit_hash" /\ ~last.hit =>
        IF Fails(world, HashArgs)
        THEN last.ret = PyStr(<<>>)
        ELSE last.ret = PyStr(strip(GitTool(world, HashArgs).stdout))

StagedArgs == <<"diff", "--cached", "--name-only">>
KeywordStagedFalse == [args |-> <<Self>>, kwargs |-> ("staged" :> PyBool(FALSE))]

\* What the call get_changed_files(staged=False) returns, made where the
\* step ends, on the stores the step began with.
UnstagedNow ==
    get_changed_files(world', KeywordStagedFalse, cache.get_changed_files,
                      timestamps.get_changed_files, clock', At(world', clock')).ret

\* The staged file list: the lines git prints for the index, none when git
\* cannot be started.
StagedList(w) ==
    IF w.tool THEN StrippedLines(GitTool(w, StagedArgs).stdout) ELSE <<>>

\* Never more than one nested call and two executor invocations, and none
\* nested when staged is false.
FallbackBounded ==
    /\ last'.nested <= 1
    /\ last'.runs <= 2
    /\ ~BindFlag(last'.call, "staged", TRUE) => last'.nested = 0 /\ last'.runs = 1

\* C9 as stated: when its function runs with staged true, get_changed_files
\* returns the staged list if that is non-empty and otherwise exactly what
\* get_changed_files(staged=False) returns; with staged false it never falls
\* back; at most one nested call and two executor invocations.
C9_FallbackAsStated ==
    [][last'.op = "get_changed_files" /\ ~last'.hit =>
        /\ FallbackBounded
        /\ BindFlag(last'.call, "staged", TRUE) =>
               IF StagedList(world) # <<>>
               THEN last'.ret = PyList(StagedList(world))
               ELSE last'.ret = UnstagedNow]_vars

\* C9 amended: the fallback is taken when the staged command ran and listed
\* nothing; when git cannot be started the result is [] and nothing is nested.
C9_FallbackWhenCommandRan ==
    [][last'.op = "get_changed_files" /\ ~last'.hit =>
        /\ FallbackBounded
        /\ BindFlag(last'.call, "staged", TRUE) =>
               IF ~world.tool
               THEN last'.ret = PyList(<<>>) /\ last'.nested = 0 /\ last'.runs = 1
               ELSE IF StagedList(world) # <<>>
               THEN last'.ret = PyList(StagedList(world)) /\ last'.nested = 0
               ELSE last'.ret = UnstagedNow /\ last'.nested = 1]_vars

\* A staged query that found nothing staged and returned the unstaged files.
C9_FellBack ==
    /\ last.op = "get_changed_files"
    /\ BindFlag(last.call, "staged", TRUE)
    /\ ~last.hit
    /\ last.nested = 1
    /\ last.runs = 2
    /\ last.ret = PyList(<<File_a_py>>)

-----------------------------------------------------------------------------
(* Properties of the memoizer's management operations, under SpecCache.    *)

\* What cache_info() of the test producer reports now.
InfoNow == cache_info(cache[TestFunc], ttl)

\* C11: after cache_clear() cache_info() reports size 0 and no keys, and the
\* next call invokes the producer whatever its arguments and however recently
\* they were cached.
C11_ClearForgets ==
    [][/\ last'.op = "cache_clear" => InfoNow'.size = 0 /\ InfoNow'.keys = {}
       /\ last.op = "cache_clear" /\ last'.op = "cache_info" =>
              last'.ret.size = 0 /\ last'.ret.keys = {}
       /\ last.op = "cache_clear" /\ last'.op = "call" =>
              /\ ~last'.hit
              /\ call_count' = call_count + 1
              /\ last'.ret = producer(last'.args, last'.kwargs, call_count')]_vars

\* The call right after a cache_clear() that removed a fresh entry for the
\* same arguments: the producer ran a second time.
C11_CallAfterClear ==
    /\ last.op = "call"
    /\ last.wiped
    /\ ~last.hit
    /\ last.ret.call = 2
    /\ InfoNow.size = 1

\* C12: the memoizer never evicts: the size cache_info() reports is the
\* number of distinct argument lists the producer has returned for since the
\* last cache_clear(), expired ones included, ttl_seconds is the configured
\* TTL, and the size decreases only through cache_clear().
C12_NoEviction ==
    [][/\ InfoNow'.size = Cardinality(DOMAIN stored')
       /\ InfoNow'.ttl_seconds = ttl'
       /\ last'.op = "cache_info" =>
              last'.ret.size = Cardinality(DOMAIN stored) /\ last'.ret.ttl_seconds = ttl
       /\ last'.op # "cache_clear" => InfoNow'.size >= InfoNow.size]_vars

\* cache_info() counting two entries, one of them expired.
C12_ExpiredCounted ==
    /\ last.op = "cache_info"
    /\ last.ret.size = 2
    /\ \E x \in DOMAIN stored : clock - stored[x].time >= ttl

-----------------------------------------------------------------------------
(* Properties of the command executor, under Spec.                         *)

\* The executor's error for a call of _run_command(args, check).
ErrorOf(message) ==
    [tool_name |-> "git", command |-> <<"git">> \o last.call.args, message |-> message]

\* C13: if git cannot be started the executor raises the tool-not-found
\* error; if the process exits non-zero with check=True it raises the
\* command-failed error with tool name "git", the vector ["git"] + args and
\* the captured stderr text; if it exits non-zero with check=False it raises
\* nothing and returns the result with exit code, stdout and stderr.
C13_ExecutorOutcomes ==
    last.op = "_run_command" =>
        IF ~world.tool
        THEN /\ last.exc = "DuggerToolError"
             /\ last.error = ErrorOf(<<"Git executable not found. Is Git installed?">>)
        ELSE LET p == GitTool(world, last.call.args)
             IN  IF p.returncode # 0 /\ last.call.check
                 THEN /\ last.exc = "DuggerToolError"
                      /\ last.error.tool_name = "git"
                      /\ last.error.command = <<"git">> \o last.call.args
                      /\ SubSeq(last.error.message, 1, 1) = <<"Git command failed: ">>
                      /\ p.stderr # <<>> =>
                             last.error.message = <<"Git command failed: ">> \o p.stderr
                 ELSE /\ last.exc = "none"
                      /\ last.ret = p

\* A command that exited non-zero under check=False: nothing raised, the
\* exit code and the stderr text handed back.
C13_NonZeroUnchecked ==
    /\ last.op = "_run_command"
    /\ ~last.call.check
    /\ last.exc = "none"
    /\ last.ret.returncode = 2
    /\ last.ret.stderr # <<>>

UntrackedArgs == <<"status", "--porcelain", "--untracked-files=normal">>

\* The porcelain parsing contract: the lines whose first two characters are
\* "??", in order, each without its two-character marker and without the
\* whitespace around what remains.
PorcelainUntracked(stdout) ==
    LET picked == SelectSeq(splitlines(stdout),
                            LAMBDA line : Len(line) >= 2 /\ SubSeq(line, 1, 2) = <<"?", "?">>)
    IN  [i \in 1..Len(picked) |-> strip(DropFirst(picked[i], 2))]

\* C17: when its function runs and the status command returns,
\* get_untracked_files() returns, in order, one path for each line of the
\* output whose first two characters are "??" and for no other line: the
\* text of the line after its two-character marker and the surrounding
\* whitespace are removed.
C17_PorcelainContract ==
    last.op = "get_untracked_files" /\ ~last.hit /\ world.tool =>
        last.ret = PyList(PorcelainUntracked(GitTool(world, UntrackedArgs).stdout))

-----------------------------------------------------------------------------
(* Properties of GitState, under SpecState.                                *)

\* b has no whitespace at either end.
Trimmed(b) == b = <<>> \/ (b[1] \notin Whitespace /\ b[Len(b)] \notin Whitespace)

\* b is text i with the whitespace around it removed and nothing else changed.
TrimOf(b, i) ==
    /\ Trimmed(b)
    /\ \E k \in 0..Len(i) :
           /\ k + Len(b) <= Len(i)
           /\ SubSeq(i, k + 1, k + Len(b)) = b
           /\ \A j \in 1..k : i[j] \in Whitespace
           /\ \A j \in (k + Len(b) + 1)..Len(i) : i[j] \in Whitespace

\* The last operation built a GitState from a mapping that gives field k.
Built(k) ==
    /\ last.op = "GitState"
    /\ last.exc = "none"
    /\ k \in DOMAIN last.raw

\* C14: a branch input that is exactly "HEAD" is stored as "detached"; any
\* other input is stored with the whitespace around it removed and otherwise
\* unchanged.
C14_BranchNormalized ==
    Built("branch") =>
        IF last.raw["branch"].v = Text_HEAD
        THEN last.ret.branch = <<"d", "e", "t", "a", "c", "h", "e", "d">>
        ELSE TrimOf(last.ret.branch, last.raw["branch"].v)

\* "HEAD" given with whitespace around it: stored as "HEAD".
C14_PaddedHead ==
    /\ Built("branch")
    /\ last.raw["branch"].v # Text_HEAD
    /\ last.ret.branch = Text_HEAD

LowerHex ==
    {"0", "1", "2", "3", "4", "5", "6", "7", "8", "9", "a", "b", "c", "d", "e", "f"}
UpperHex == {<<"A", "a">>, <<"B", "b">>, <<"C", "c">>, <<"D", "d">>, <<"E", "e">>,
             <<"F", "f">>}

IsHex(ch) == ch \in LowerHex \/ \E u \in UpperHex : u[1] = ch

\* C15: the stored commit_hash is empty or lower-case hexadecimal of length 7
\* or more: an input of 7 or more characters, all in [0-9a-fA-F], is stored
\* lower-cased, every other input as the empty string.
C15_HashNormalized ==
    Built("commit_hash") =>
        LET i == last.raw["commit_hash"].v
            h == last.ret.commit_hash
        IN  /\ h = <<>> \/ (Len(h) >= 7 /\ \A j \in 1..Len(h) : h[j] \in LowerHex)
            /\ IF Len(i) >= 7 /\ \A j \in 1..Len(i) : IsHex(i[j])
               THEN /\ Len(h) = Len(i)
                    /\ \A j \in 1..Len(i) : h[j] = i[j] \/ <<i[j], h[j]>> \in UpperHex
               ELSE h = <<>>

\* An upper-case hash of exactly 7 characters, stored lower-cased.
C15_SevenUpper ==
    /\ Built("commit_hash")
    /\ last.raw["commit_hash"].v = Text_ABC123D
    /\ last.ret.commit_hash = Text_hash

\* C16: the stored untracked_files is the input with every entry trimmed and
\* the entries that are empty after trimming removed, the others in their
\* order; no stored entry is empty or has whitespace at either end.
C16_UntrackedNormalized ==
    Built("untracked_files") =>
        LET l == last.raw["untracked_files"].v
            u == last.ret.untracked_files
            keep == {i \in 1..Len(l) : \E j \in 1..Len(l[i]) : l[i][j] \notin Whitespace}
            nth(k) == CHOOSE i \in keep : Cardinality({j \in keep : j <= i}) = k
        IN  /\ Len(u) = Cardinality(keep)
            /\ \A k \in 1..Len(u) : u[k] # <<>> /\ TrimOf(u[k], l[nth(k)])

\* Two entries given, a blank one and a padded one: one stored, trimmed.
C16_BlankDropped ==
    /\ Built("untracked_files")
    /\ Len(last.raw["untracked_files"].v) = 2
    /\ last.raw["untracked_files"].v[1] = <<" ">>
    /\ last.raw["untracked_files"].v[2] # File_a_py
    /\ last.ret.untracked_files = <<File_a_py>>

\* C18: has_changes() is true iff is_dirty is true or untracked_files is not
\* empty, and is_clean() is its negation.
C18_HasChanges ==
    /\ last.op = "has_changes" =>
           last.ret = (git_state.is_dirty \/ Len(git_state.untracked_files) > 0)
    /\ last.op = "is_clean" =>
           last.ret = ~(git_state.is_dirty \/ Len(git_state.untracked_files) > 0)

\* is_clean() answering false for a state that is not dirty but has an
\* untracked file.
C18_UntrackedOnly ==
    /\ last.op = "is_clean"
    /\ last.ret = FALSE
    /\ ~git_state.is_dirty
    /\ git_state.untracked_files # <<>>

HolderOps == {"setattr", "append", "has_changes", "is_clean"}

\* C19: a GitState is immutable after construction: no field assignment, no
\* mutation of the untracked_files list and no method changes any field.
C19_Immutable ==
    [][git_state.exc = "none" /\ last'.op \in HolderOps => git_state' = git_state]_vars

\* The mapping has a key outside the seven fields, a negative commit_count, or
\* None for a field that is not optional.
Offending(raw) ==
    \/ DOMAIN raw \ GitStateFields # {}
    \/ \E k \in DOMAIN raw : k # "remote_url" /\ raw[k] = PyNone
    \/ "commit_count" \in DOMAIN raw /\ raw["commit_count"] # PyNone
       /\ raw["commit_count"].v < 0

\* C20 as stated: construction never rejects a raw mapping; a negative
\* commit_count or a key outside the seven fields is replaced by a safe
\* default and construction succeeds.
C20_NeverRejects ==
    last.op = "GitState" =>
        /\ last.exc = "none"
        /\ last.ret.commit_count >= 0
        /\ DOMAIN last.ret = GitStateFields \cup {"exc"}

\* C20 amended: construction raises a validation error exactly for a mapping
\* with a key outside the seven fields, a negative commit_count or None for a
\* field that is not optional; for every other mapping it succeeds, storing an
\* ill-formed commit_hash as "" and dropping blank untracked entries.
C20_RejectsOrSanitizes ==
    last.op = "GitState" =>
        IF Offending(last.raw)
        THEN last.exc = "ValidationError"
        ELSE /\ last.exc = "none"
             /\ DOMAIN last.ret = GitStateFields \cup {"exc"}
             /\ last.ret.commit_count >= 0
             /\ last.ret.commit_hash = <<>> \/ Len(last.ret.commit_hash) >= 7
             /\ \A k \in 1..Len(last.ret.untracked_files) :
                    last.ret.untracked_files[k] # <<>>

\* A mapping with commit_count -1, rejected.
C20_NegativeRejected ==
    /\ last.op = "GitState"
    /\ "commit_count" \in DOMAIN last.raw
    /\ last.raw["commit_count"].v < 0
    /\ last.exc = "ValidationError"

\* The fields other than is_git_repo hold the defaults of the class.
HoldsDefaults(state) ==
    /\ state.branch = GitStateDefaults["branch"].v
    /\ state.is_dirty = GitStateDefaults["is_dirty"].v
    /\ state.commit_hash = GitStateDefaults["commit_hash"].v
    /\ state.untracked_files = GitStateDefaults["untracked_files"].v
    /\ state.commit_count = GitStateDefaults["commit_count"].v
    /\ state.remote_url = GitStateDefaults["remote_url"]

\* C21 as stated: in every GitState whose is_git_repo is false, all other
\* fields hold their defaults.
C21_NonRepoDefaults ==
    git_state.exc = "none" /\ ~git_state.is_git_repo => HoldsDefaults(git_state)

\* C21 amended: a GitState built from a summary of get_git_summary(), or from
\* no arguments, whose is_git_repo is false holds the defaults in all other
\* fields.
C21_SummaryDefaults ==
    /\ last.op = "GitState"
    /\ last.exc = "none"
    /\ last.raw \in Summaries \cup {EmptyDict}
    /\ ~last.ret.is_git_repo
    => HoldsDefaults(last.ret)

\* A GitState built from the summary of a machine without git.
C21_BuiltFromNoTool ==
    /\ last.op = "GitState"
    /\ last.exc = "none"
    /\ last.raw = get_git_summary(Steady(W_NoTool, 0), cache, timestamps).ret
    /\ "is_git_repo" \in DOMAIN last.raw
    /\ ~last.ret.is_git_repo
    /\ git_state = last.ret

\* The fields of a GitState as a raw mapping, as model_dump() gives them.
FieldsOf(state) ==
    [is_git_repo |-> PyBool(state.is_git_repo), branch |-> PyStr(state.branch),
     is_dirty |-> PyBool(state.is_dirty), commit_hash |-> PyStr(state.commit_hash),
     untracked_files |-> PyList(state.untracked_files),
     commit_count |-> PyInt(state.commit_count), remote_url |-> state.remote_url]

\* C30: normalization is idempotent: a GitState built from the fields of a
\* GitState that was just built has the same branch, commit_hash and
\* untracked_files.
C30_Idempotent ==
    last.op = "GitState" /\ last.exc = "none" =>
        \E again \in {GitState(FieldsOf(last.ret))} :
            /\ again.exc = "none"
            /\ again.branch = last.ret.branch
            /\ again.commit_hash = last.ret.commit_hash
            /\ again.untracked_files = last.ret.untracked_files

\* C22: when is_git_repository() is false, get_git_summary() makes exactly
\* one executor invocation (the probe), calls none of the memoized queries
\* and leaves the value store and the timestamp store of every memoized
\* method as they were.
C22_ShortCircuit ==
    [][last'.op = "get_git_summary" /\ is_git_repository(world).ret = PyBool(FALSE) =>
           /\ last'.exc = "none"
           /\ last'.ret = NotARepository
           /\ last'.runs = 1
           /\ last'.nested = 0
           /\ cache' = cache
           /\ timestamps' = timestamps]_vars

\* The short-circuit taken while a memoized method holds an entry.
C22_ShortCircuitOverEntries ==
    /\ last.op = "get_git_summary"
    /\ is_git_repository(world).ret = PyBool(FALSE)
    /\ last.runs = 1
    /\ \E m \in Methods : cache[m] # EmptyDict

\* The value each memoized query returns from its except clause.
DefaultOf ==
    [get_status |-> PyStr(<<>>), get_current_branch |-> PyStr(Text_unknown),
     get_last_commit_hash |-> PyStr(<<>>), is_dirty |-> PyBool(FALSE),
     get_untracked_files |-> PyList(<<>>), get_changed_files |-> PyList(<<>>),
     get_commit_count |-> PyInt(0), get_remote_url |-> PyNone]

\* C26: a default returned because the executor failed is stored like any
\* result: the call that misses while git cannot be started returns the
\* method's default and stores it with the clock reading of the call, and
\* every call whose key has an entry younger than the method's ttl returns
\* that entry without invoking the executor, whatever the tool would answer
\* now.
C26_DefaultCached ==
    [][last'.op \in Methods =>
        LET m == last'.op
            key == KeyOf(last'.call)
        IN  IF key \in DOMAIN cache[m] /\ clock - timestamps[m][key] < TTLOf[m]
            THEN /\ last'.hit
                 /\ last'.ret = cache[m][key]
                 /\ last'.runs = 0
            ELSE ~world.tool =>
                 /\ last'.ret = DefaultOf[m]
                 /\ key \in DOMAIN cache'[m] \cap DOMAIN timestamps'[m]
                 /\ cache'[m][key] = DefaultOf[m]
                 /\ timestamps'[m][key] = clock]_vars

\* get_current_branch() answering "unknown" from its cache on a machine where
\* git now runs and names the branch.
C26_StaleUnknown ==
    /\ last.op = "get_current_branch"
    /\ last.hit
    /\ last.runs = 0
    /\ last.ret = PyStr(Text_unknown)
    /\ world.tool
    /\ GitTool(world, BranchArgs).returncode = 0
    /\ strip(GitTool(world, BranchArgs).stdout) = Text_main

\* C29 as stated: in every summary of a repository a non-empty
\* untracked_files comes with is_dirty true.
C29_UntrackedImpliesDirty ==
    last.op = "get_git_summary" /\ last.exc = "none" /\ last.ret.is_git_repo.v =>
        (last.ret.untracked_files.v # <<>> => last.ret.is_dirty.v)

\* The memoized call m made by the get_git_summary() call of the step ran
\* its function: it stored an entry, or a timestamp later than the one the
\* step began with (an entry is replaced only after its ttl, which is
\* positive).
Computed(m) ==
    \/ KeyOf(DefaultCall) \notin DOMAIN timestamps[m]
    \/ timestamps'[m][KeyOf(DefaultCall)] # timestamps[m][KeyOf(DefaultCall)]

\* C29 amended: in a summary of a repository whose is_dirty and
\* untracked_files are both computed by that get_git_summary() call (neither
\* served from the cache) while the repository stays as it is, a non-empty
\* untracked_files comes with is_dirty true.
C29_FreshFieldsAgree ==
    [][/\ last'.op = "get_git_summary"
       /\ last'.exc = "none"
       /\ last'.ret.is_git_repo.v
       /\ Computed("is_dirty")
       /\ Computed("get_untracked_files")
       /\ Undisturbed
       => (last'.ret.untracked_files.v # <<>> => last'.ret.is_dirty.v)]_vars

\* A summary computed in full for a repository with an untracked file.
C29_FreshUntracked ==
    /\ last.op = "get_git_summary"
    /\ last.runs = 1 + Cardinality(SummaryMethods)
    /\ last.ret.untracked_files = PyList(<<File_new_txt>>)
    /\ last.ret.is_dirty = PyBool(TRUE)
    /\ world = W_Unborn

\* C25: after every completed operation of the memoizer the value store and
\* the timestamp store have the same keys, and a call whose producer raises
\* leaves both stores as they were: no entry added, an existing entry for
\* the key kept with its value and timestamp.
C25_StoresInStep ==
    [][/\ DOMAIN cache'[TestFunc] = DOMAIN timestamps'[TestFunc]
       /\ last'.op = "raise" =>
              /\ last'.exc # "none"
              /\ cache'[TestFunc] = cache[TestFunc]
              /\ timestamps'[TestFunc] = timestamps[TestFunc]]_vars

\* The producer raised on a call whose key has an expired entry.
C25_RaisedOverEntry ==
    /\ last.op = "raise"
    /\ CacheKey(last.args, last.kwargs) \in DOMAIN cache[TestFunc]
    /\ clock - timestamps[TestFunc][CacheKey(last.args, last.kwargs)] >= ttl

-----------------------------------------------------------------------------
(* Properties of several inspectors, under SpecPaths.                      *)

\* C27: a memoized query on an inspector whose repo_path is P never returns
\* a value that was computed by running git in another path.
C27_NoCrossPath ==
    last.op \in PathMethods => last.computed_in = last.path

\* C28: cache_clear() reached through one instance's method m empties the
\* value store and the timestamp store of m, the entries of every instance
\* with them, and leaves both stores of every other method as they were.
C28_ClearScope ==
    [][last'.op = "cache_clear" =>
           /\ cache'[last'.method] = EmptyDict
           /\ timestamps'[last'.method] = EmptyDict
           /\ \A f \in Funcs \ {last'.method} :
                  cache'[f] = cache[f] /\ timestamps'[f] = timestamps[f]]_vars

\* A clear through one instance that removed the entries of two instances
\* while the other method keeps its entry.
C28_TwoInstancesCleared ==
    /\ last.op = "cache_clear"
    /\ Cardinality(last.dropped) = 2
    /\ cache[last.method] = EmptyDict
    /\ \E f \in PathMethods \ {last.method} : cache[f] # EmptyDict

-----------------------------------------------------------------------------
(* Properties of the memoizer under two threads, checked under SpecThreads. *)

\* A call failed on the lookup: KeyError out of the wrapper.
LookupFailed == last.op = "call" /\ last.exc = "KeyError"

(* C23: the memoizer is not safe for unsynchronized concurrent callers.    *)
(* The bad states, the producer invoked twice for one key inside one TTL   *)
(* window with no clear in between, and a call failing with KeyError on a  *)
(* key one store holds and the other does not, are reached, and they are   *)
(* reached only in behaviours where a call or a cache_clear() began while  *)
(* another thread was inside the wrapper or inside cache_clear().          *)
C23_BadOnlyWhenOverlapped ==
    (history.twice \/ LookupFailed) => history.overlapped

\* Two threads computed the same key in one window, and after a clear that
\* ran across a store, a call found the key in the value store only and failed.
C23_TwiceAndFailed ==
    /\ history.twice
    /\ LookupFailed
    /\ last.key \in DOMAIN cache[TestFunc]
    /\ last.key \notin DOMAIN timestamps[TestFunc]

\* What C24 says of one step of thread t, for callers that do not overlap.
TimedStep(t) ==
    \E me \in {threads[t]} :
        \* the miss ends: the timestamp stored is the reading taken when the
        \* wrapper began, no later than the start of the producer
        /\ (me.pc = "stamp" /\ threads'[t].pc = "idle") =>
               /\ me.key \in DOMAIN timestamps'[TestFunc]
               /\ timestamps'[TestFunc][me.key] = me.current_time
               /\ me.current_time = history.log[me.n].stamp
               /\ me.current_time <= history.log[me.n].began
        \* a value is served: its invocation began less than ttl before
        /\ (~history'.overlapped /\ me.pc = "serve" /\ threads'[t].pc = "idle"
                /\ last'.exc = "none") =>
               /\ last'.hit
               /\ last'.ret = cache[TestFunc][me.key]
               /\ me.current_time - history.log[last'.ret.call].began < ttl
        \* the key is held by an invocation that took ttl or longer: the
        \* call invokes the producer again
        /\ (~history.overlapped /\ me.pc = "lookup" /\ threads'[t] # me
                /\ me.key \in DOMAIN cache[TestFunc]
                /\ history.log[cache[TestFunc][me.key].call].ended
                     - history.log[cache[TestFunc][me.key].call].began >= ttl) =>
               threads'[t].pc = "calling"
        \* and a call that has come to the function invokes it
        /\ (me.pc = "calling" /\ threads'[t] # me) =>
               /\ threads'[t].pc = "running"
               /\ call_count' = call_count + 1

(* C24: the timestamp stored with an entry is the clock reading taken when *)
(* the wrapper call began, before the producer ran; so, for callers that   *)
(* do not overlap, a value served from the cache comes from an invocation  *)
(* that began less than ttl before the serving call, and when an           *)
(* invocation took ttl or longer the next call with the same arguments     *)
(* invokes the producer again.                                             *)
C24_StampedAtStart == [][\A t \in Threads : TimedStep(t)]_vars

\* A producer took ttl or longer, and the call made the moment it had
\* returned, with the same arguments, has invoked the producer again.
C24_SlowProducerRecomputed ==
    /\ ~history.overlapped
    /\ Len(history.log) = 2
    /\ history.log[1].key = history.log[2].key
    /\ ~history.log[1].cleared
    /\ history.log[1].ended - history.log[1].began >= ttl
    /\ history.log[2].stamp = history.log[1].ended
    /\ history.log[1].key \in DOMAIN timestamps[TestFunc]
    /\ timestamps[TestFunc][history.log[1].key] = history.log[2].stamp

====
